---- MODULE Spec2Model ----
(***************************************************************************)
(* PayStream: StreamManager.sol, YieldVault.sol, TaxVault.sol and the      *)
(* HLUSD ERC-20 token, as one state machine.  Every external call is one   *)
(* atomic action: a call that reverts leaves the contracts' storage and    *)
(* the token balances as they were, so it is a stuttering step; what a     *)
(* call returns, error included, is given by the operator of its name.     *)
(*                                                                         *)
(* Amounts are counted in whole HLUSD (1e18 wei) and time in model ticks;  *)
(* MAX_RATE and SECONDS_PER_YEAR are scaled accordingly, because TLC's     *)
(* integers are 32 bits wide.  All arithmetic is the integer arithmetic of *)
(* the contracts (floor division).                                         *)
(***************************************************************************)
EXTENDS Integers, Sequences, FiniteSets, TLC

\* ------------------------------------------------------------------ bounds
MaxTime == 2
MaxStreams == 1
MaxPairStreams == 2
MaxNonce == 1
MaxSponsorship == 1
MintAmount == 41
MaxCreated == 2
MaxTaxDeposited == 2
MaxAccrualTime == 4
MaxEvents == 4

\* ------------------------------------------------------- program constants
MAX_BATCH == 200
MAX_TAX_BPS == 10000
MAX_RATE == 1000
MAX_YIELD_BPS == 10000
BPS_DENOMINATOR == 10000
SECONDS_PER_YEAR == 2

\* --------------------------------------------------------------- addresses
ZeroAddress == "0x0"
owner == "owner"
employee == "employee"
other == "other"
relayer == "relayer"
manager == "StreamManager"
vault == "YieldVault"
taxVault == "TaxVault"

Accounts == {owner, employee, other, relayer}
Holders == Accounts \cup {manager, vault, taxVault}

\* ------------------------------------------------------------ input ranges
AmountChoices == {0, 40}
SponsorChoices == {0, 1}
TaxDepositChoices == {0, 1}
RecipientChoices == {ZeroAddress, owner}
FeeChoices == {0, 1}
EmployeeChoices == {ZeroAddress, employee, other}
RateChoices == {0, 3, MAX_RATE + 1}
TaxChoices == {5000, MAX_TAX_BPS + 1}
BonusChoices == {0, 5}
YieldChoices == {0, 500, MAX_YIELD_BPS + 1}
DeployedYieldBps == {500}
AdminCallers == {owner, other}
WithdrawCallers == {employee, relayer}
Signers == {employee, other}
StreamIds == 0..(MaxStreams - 1)
PairIds == 0..(MaxPairStreams - 1)
Nonces == 0..MaxNonce

NoStream == 0 - 1
NoTime == 0 - 1

VARIABLES
    now,                \* block.timestamp
    streams,            \* StreamManager.streams, on the ids created so far
    nextStreamId,       \* StreamManager.nextStreamId
    nonces,             \* StreamManager.nonces
    sponsorshipPool,    \* StreamManager.sponsorshipPool
    yieldVault,         \* YieldVault's storage
    vaultOwner,         \* YieldVault's Ownable owner
    totalTaxCollected,  \* TaxVault.totalTaxCollected
    balances,           \* HLUSD balanceOf
    last,               \* the outcome of the latest call
    ledger,             \* history, per stream: seconds earned and not yet paid
    accepted            \* history: the <<employee, nonce>> pairs accepted so far

vars == <<now, streams, nextStreamId, nonces, sponsorshipPool, yieldVault,
          vaultOwner, totalTaxCollected, balances, last, ledger, accepted>>

\* ------------------------------------------------------------------ Stream

\* A storage slot that was never written reads as zero.
ZeroStream ==
    [employee |-> ZeroAddress, ratePerSecond |-> 0, lastCheckpoint |-> 0,
     taxBps |-> 0, active |-> FALSE, paused |-> FALSE, bonusAmount |-> 0,
     bonusReleaseTime |-> 0, bonusClaimed |-> FALSE]

StreamAt(ss, streamId) ==
    IF streamId \in DOMAIN ss THEN ss[streamId] ELSE ZeroStream

NewStream(emp, ratePerSecond, taxBps, checkpoint) ==
    [employee |-> emp, ratePerSecond |-> ratePerSecond,
     lastCheckpoint |-> checkpoint, taxBps |-> taxBps, active |-> TRUE,
     paused |-> FALSE, bonusAmount |-> 0, bonusReleaseTime |-> 0,
     bonusClaimed |-> FALSE]

\* ------------------------------------------------------------------- HLUSD

\* ERC20.transfer / transferFrom: reverts when the sender's balance is short.
CanTransfer(b, from, amount) == b[from] >= amount

Transfer(b, from, to, amount) ==
    [[b EXCEPT ![from] = @ - amount] EXCEPT ![to] = @ + amount]

\* -------------------------------------------------------------- YieldVault

\* a yield that is earned on the credited yield as well
pendingYield_compounding(yv, t) ==
    IF yv.totalPrincipal = 0 \/ yv.yieldRateBps = 0 THEN 0
    ELSE IF t - yv.lastUpdate = 0 THEN 0
    ELSE ((yv.totalPrincipal + yv.accumulatedYield) * yv.yieldRateBps
            * (t - yv.lastUpdate))
            \div (BPS_DENOMINATOR * SECONDS_PER_YEAR)

pendingYield(yv, t) ==
    IF yv.totalPrincipal = 0 \/ yv.yieldRateBps = 0 THEN 0
    ELSE IF t - yv.lastUpdate = 0 THEN 0
    ELSE (yv.totalPrincipal * yv.yieldRateBps * (t - yv.lastUpdate))
            \div (BPS_DENOMINATOR * SECONDS_PER_YEAR)

\* an accrual that credits the pending yield and leaves the clock behind
simulateYield_keepClock(yv, t) ==
    [yv EXCEPT !.accumulatedYield = @ + pendingYield(yv, t)]

simulateYield(yv, t) ==
    [yv EXCEPT !.accumulatedYield = @ + pendingYield(yv, t),
               !.lastUpdate = t]

\* a balance that leaves the pending yield out
currentBalance_noPending(yv, t) ==
    yv.totalPrincipal + yv.accumulatedYield

currentBalance(yv, t) ==
    yv.totalPrincipal + yv.accumulatedYield + pendingYield(yv, t)

\* YieldVault.deposit(amount) called by `caller`, who has approved the vault.
vaultDeposit(yv, b, vOwner, caller, amount, t) ==
    LET accrued == simulateYield(yv, t) IN
    IF caller # vOwner THEN [err |-> "NotOwner", yieldVault |-> yv, balances |-> b]
    ELSE IF amount = 0 THEN [err |-> "ZeroAmount", yieldVault |-> yv, balances |-> b]
    ELSE IF ~CanTransfer(b, caller, amount)
        THEN [err |-> "ERC20InsufficientBalance", yieldVault |-> yv, balances |-> b]
    ELSE [err |-> "ok",
          yieldVault |-> [accrued EXCEPT !.totalPrincipal = @ + amount],
          balances |-> Transfer(b, caller, vault, amount)]

\* YieldVault.withdraw(amount, to) called by `caller`.
vaultWithdraw(yv, b, vOwner, caller, amount, to, t) ==
    LET accrued == simulateYield(yv, t)
        available == accrued.totalPrincipal + accrued.accumulatedYield
        deducted ==
            IF amount <= accrued.accumulatedYield
            THEN [accrued EXCEPT !.accumulatedYield = @ - amount]
            ELSE [accrued EXCEPT !.accumulatedYield = 0,
                                 !.totalPrincipal =
                                     @ - (amount - accrued.accumulatedYield)]
    IN
    IF caller # vOwner THEN [err |-> "NotOwner", yieldVault |-> yv, balances |-> b]
    ELSE IF amount = 0 THEN [err |-> "ZeroAmount", yieldVault |-> yv, balances |-> b]
    ELSE IF to = ZeroAddress
        THEN [err |-> "ZeroAddress", yieldVault |-> yv, balances |-> b]
    ELSE IF amount > available
        THEN [err |-> "InsufficientBalance", yieldVault |-> yv, balances |-> b]
    ELSE IF ~CanTransfer(b, vault, amount)
        THEN [err |-> "ERC20InsufficientBalance", yieldVault |-> yv, balances |-> b]
    ELSE [err |-> "ok", yieldVault |-> deducted,
          balances |-> Transfer(b, vault, to, amount)]

\* ----------------------------------------------------------- StreamManager

\* a validation that rejects the largest rate
validateStreamParams_belowMaxRate(emp, ratePerSecond, taxBps) ==
    IF emp = ZeroAddress THEN "ZeroAddress"
    ELSE IF ratePerSecond = 0 \/ ratePerSecond >= MAX_RATE THEN "InvalidRate"
    ELSE IF taxBps > MAX_TAX_BPS THEN "InvalidTaxBps"
    ELSE "ok"

validateStreamParams(emp, ratePerSecond, taxBps) ==
    IF emp = ZeroAddress THEN "ZeroAddress"
    ELSE IF ratePerSecond = 0 \/ ratePerSecond > MAX_RATE THEN "InvalidRate"
    ELSE IF taxBps > MAX_TAX_BPS THEN "InvalidTaxBps"
    ELSE "ok"

\* accrual counted from time 0 instead of from the checkpoint
accruedSalary_sinceZero(ss, streamId, t) ==
    StreamAt(ss, streamId).ratePerSecond * t

\* accruedSalary(streamId) evaluated at block.timestamp = t
accruedSalary(ss, streamId, t) ==
    StreamAt(ss, streamId).ratePerSecond
        * (t - StreamAt(ss, streamId).lastCheckpoint)

\* a bonus condition that does not look at the release time
bonusClaimable_ignoreRelease(s, t) ==
    s.bonusAmount > 0 /\ ~s.bonusClaimed

\* the condition under which a withdrawal at t settles the bonus
bonusClaimable(s, t) ==
    s.bonusAmount > 0 /\ t >= s.bonusReleaseTime /\ ~s.bonusClaimed

\* the tax rounded up instead of down
salaryTax_ceil(accrued, taxBps) ==
    (accrued * taxBps + BPS_DENOMINATOR - 1) \div BPS_DENOMINATOR

\* tax = (accrued * taxBps) / 10000
salaryTax(accrued, taxBps) == (accrued * taxBps) \div BPS_DENOMINATOR

\* a quote that withholds tax on the bonus as well
netWithdrawable_taxesBonus(ss, streamId, t) ==
    LET s == StreamAt(ss, streamId)
        accrued == s.ratePerSecond * (t - s.lastCheckpoint)
        gross == IF bonusClaimable(s, t) THEN accrued + s.bonusAmount
                 ELSE accrued
    IN gross - salaryTax(gross, s.taxBps)

netWithdrawable(ss, streamId, t) ==
    LET s == StreamAt(ss, streamId)
        accrued == s.ratePerSecond * (t - s.lastCheckpoint)
        net == accrued - salaryTax(accrued, s.taxBps)
    IN IF bonusClaimable(s, t) THEN net + s.bonusAmount ELSE net

\* a failed withdrawal whose checkpoint write survives
Reverted_checkpointed(e, ss, yv, b) ==
    [err |-> e,
     streams |-> [i \in DOMAIN ss |-> [ss[i] EXCEPT !.lastCheckpoint = now]],
     yieldVault |-> yv, balances |-> b,
     accrued |-> 0, bonus |-> 0, tax |-> 0, net |-> 0]

\* what a withdrawal that reverts returns: nothing moved, nothing written
Reverted(e, ss, yv, b) ==
    [err |-> e, streams |-> ss, yieldVault |-> yv, balances |-> b,
     accrued |-> 0, bonus |-> 0, tax |-> 0, net |-> 0]

\* a checkpoint that stays at the epoch
checkpointAt_epoch(t) == 0

\* the checkpoint a settling operation writes at block.timestamp = t
checkpointAt(t) == t

\* a withdrawal that claims the bonus but leaves the checkpoint where it was
settle_keepCheckpoint(s, claim, t) ==
    [s EXCEPT !.bonusClaimed = IF claim THEN TRUE ELSE @]

\* what a withdrawal at t writes to the stream: s.bonusClaimed = true when it
\* claims the bonus, s.lastCheckpoint = uint64(block.timestamp)
settle(s, claim, t) ==
    [s EXCEPT !.bonusClaimed = IF claim THEN TRUE ELSE @,
              !.lastCheckpoint = checkpointAt(t)]

executeWithdraw(ss, yv, b, vOwner, streamId, t) ==
    LET s == StreamAt(ss, streamId)
        elapsed == t - s.lastCheckpoint
        accrued == s.ratePerSecond * elapsed
        claim == bonusClaimable(s, t)
        bonus == IF claim THEN s.bonusAmount ELSE 0
        gross == accrued + bonus
        tax == salaryTax(accrued, s.taxBps)
        net == gross - tax
        totalPayout == net + tax
        settled == settle(s, claim, t)
        pulled == vaultWithdraw(yv, b, vOwner, manager, totalPayout, manager, t)
        afterTax == IF tax > 0 THEN Transfer(pulled.balances, manager, taxVault, tax)
                    ELSE pulled.balances
    IN
    IF ~s.active THEN Reverted("StreamInactive", ss, yv, b)
    ELSE IF s.paused THEN Reverted("AlreadyPaused", ss, yv, b)
    ELSE IF gross = 0 THEN Reverted("NothingToWithdraw", ss, yv, b)
    ELSE IF pulled.err # "ok" THEN Reverted(pulled.err, ss, yv, b)
    ELSE [err |-> "ok",
          streams |-> [ss EXCEPT ![streamId] = settled],
          yieldVault |-> pulled.yieldVault,
          balances |-> Transfer(afterTax, manager, s.employee, net),
          accrued |-> accrued, bonus |-> bonus, tax |-> tax, net |-> net]

\* ------------------------------------------------- EIP-712 signed withdrawal

\* A signature is what an account signed: the signer and the WithdrawPayload.
\* Signing happens off chain, so every signature of every account exists.
Payload(streamId, nonce, deadline) ==
    [streamId |-> streamId, nonce |-> nonce, deadline |-> deadline]

Signature(signer, payload) == [signer |-> signer, payload |-> payload]

\* What ECDSA recovery over a digest other than the signed one yields: an
\* address no account of the system holds.
Unrelated == "unrelated"

\* recovery that does not bind the signature to the digest
recover_anyDigest(payload, signature) == signature.signer

\* digest.recover(signature), the digest being that of `payload`
recover(payload, signature) ==
    IF signature.payload = payload THEN signature.signer ELSE Unrelated

\* block.timestamp >= deadline
expired_atDeadline(t, deadline) == t >= deadline

\* block.timestamp > deadline
expired(t, deadline) == t > deadline

\* the nonce is written back as it was
nextNonce_same(nonce) == nonce

\* the nonce is advanced by two
nextNonce_skip(nonce) == nonce + 2

\* nonces[employee] = nonce + 1
nextNonce(nonce) == nonce + 1

\* a pool that is taken to cover every fee
sponsors_always(pool, relayerFee) == TRUE

\* the negation of `sponsorshipPool < relayerFee`
sponsors(pool, relayerFee) == pool >= relayerFee

\* a fee that the pool is not charged for
debitPool_free(pool, relayerFee) == pool

\* sponsorshipPool -= relayerFee
debitPool(pool, relayerFee) == pool - relayerFee

RevertedSigned(e) ==
    [err |-> e, streams |-> streams, yieldVault |-> yieldVault,
     balances |-> balances, nonces |-> nonces,
     sponsorshipPool |-> sponsorshipPool,
     accrued |-> 0, bonus |-> 0, tax |-> 0, net |-> 0]

\* a signed withdrawal that does not compare the nonce with the employee's
withdrawSigned_anyNonce(caller, streamId, nonce, deadline, relayerFee, signature) ==
    LET emp == StreamAt(streams, streamId).employee
        signer == recover(Payload(streamId, nonce, deadline), signature)
        w == executeWithdraw(streams, yieldVault, balances, vaultOwner,
                             streamId, now)
    IN
    IF expired(now, deadline) THEN RevertedSigned("SignatureExpired")
    ELSE IF signer # emp THEN RevertedSigned("InvalidSignature")
    ELSE IF w.err # "ok" THEN RevertedSigned(w.err)
    ELSE IF relayerFee > 0 /\ ~sponsors(sponsorshipPool, relayerFee)
        THEN RevertedSigned("InsufficientSponsorship")
    ELSE IF relayerFee > 0 /\ ~CanTransfer(w.balances, manager, relayerFee)
        THEN RevertedSigned("ERC20InsufficientBalance")
    ELSE [err |-> "ok", streams |-> w.streams, yieldVault |-> w.yieldVault,
          balances |-> IF relayerFee > 0
                       THEN Transfer(w.balances, manager, caller, relayerFee)
                       ELSE w.balances,
          nonces |-> [nonces EXCEPT ![emp] = nextNonce(nonce)],
          sponsorshipPool |-> IF relayerFee > 0
                              THEN debitPool(sponsorshipPool, relayerFee)
                              ELSE sponsorshipPool,
          accrued |-> w.accrued, bonus |-> w.bonus, tax |-> w.tax,
          net |-> w.net]

withdrawSigned(caller, streamId, nonce, deadline, relayerFee, signature) ==
    LET emp == StreamAt(streams, streamId).employee
        signer == recover(Payload(streamId, nonce, deadline), signature)
        w == executeWithdraw(streams, yieldVault, balances, vaultOwner,
                             streamId, now)
    IN
    IF expired(now, deadline) THEN RevertedSigned("SignatureExpired")
    ELSE IF nonce # nonces[emp] THEN RevertedSigned("InvalidNonce")
    ELSE IF signer # emp THEN RevertedSigned("InvalidSignature")
    ELSE IF w.err # "ok" THEN RevertedSigned(w.err)
    ELSE IF relayerFee > 0 /\ ~sponsors(sponsorshipPool, relayerFee)
        THEN RevertedSigned("InsufficientSponsorship")
    ELSE IF relayerFee > 0 /\ ~CanTransfer(w.balances, manager, relayerFee)
        THEN RevertedSigned("ERC20InsufficientBalance")
    ELSE [err |-> "ok", streams |-> w.streams, yieldVault |-> w.yieldVault,
          balances |-> IF relayerFee > 0
                       THEN Transfer(w.balances, manager, caller, relayerFee)
                       ELSE w.balances,
          nonces |-> [nonces EXCEPT ![emp] = nextNonce(nonce)],
          sponsorshipPool |-> IF relayerFee > 0
                              THEN debitPool(sponsorshipPool, relayerFee)
                              ELSE sponsorshipPool,
          accrued |-> w.accrued, bonus |-> w.bonus, tax |-> w.tax,
          net |-> w.net]

\* a withdraw that only the stream's employee may call
withdraw_employeeOnly(caller, streamId) ==
    IF caller # StreamAt(streams, streamId).employee
    THEN Reverted("NotEmployee", streams, yieldVault, balances)
    ELSE executeWithdraw(streams, yieldVault, balances, vaultOwner, streamId,
                         now)

\* withdraw(streamId): msg.sender is not looked at
withdraw(caller, streamId) ==
    executeWithdraw(streams, yieldVault, balances, vaultOwner, streamId, now)

\* ------------------------------------------------------ lifecycle management

Lifecycle(e, ss) == [err |-> e, streams |-> ss]

\* a pause that does not look at s.active
pauseStream_noActiveCheck(caller, streamId) ==
    LET s == StreamAt(streams, streamId) IN
    IF caller # owner THEN Lifecycle("NotOwner", streams)
    ELSE IF s.paused THEN Lifecycle("AlreadyPaused", streams)
    ELSE Lifecycle("ok", [streams EXCEPT ![streamId] =
                [s EXCEPT !.lastCheckpoint = checkpointAt(now), !.paused = TRUE]])

\* a pause that does not look at s.paused and moves the checkpoint again
pauseStream_noPausedCheck(caller, streamId) ==
    LET s == StreamAt(streams, streamId) IN
    IF caller # owner THEN Lifecycle("NotOwner", streams)
    ELSE IF ~s.active THEN Lifecycle("StreamInactive", streams)
    ELSE Lifecycle("ok", [streams EXCEPT ![streamId] =
                [s EXCEPT !.lastCheckpoint = checkpointAt(now), !.paused = TRUE]])

pauseStream(caller, streamId) ==
    LET s == StreamAt(streams, streamId) IN
    IF caller # owner THEN Lifecycle("NotOwner", streams)
    ELSE IF ~s.active THEN Lifecycle("StreamInactive", streams)
    ELSE IF s.paused THEN Lifecycle("AlreadyPaused", streams)
    ELSE Lifecycle("ok", [streams EXCEPT ![streamId] =
                [s EXCEPT !.lastCheckpoint = checkpointAt(now), !.paused = TRUE]])

\* a resume that leaves the checkpoint at the pause
resumeStream_keepCheckpoint(caller, streamId) ==
    LET s == StreamAt(streams, streamId) IN
    IF caller # owner THEN Lifecycle("NotOwner", streams)
    ELSE IF ~s.active THEN Lifecycle("StreamInactive", streams)
    ELSE IF ~s.paused THEN Lifecycle("NotPaused", streams)
    ELSE Lifecycle("ok", [streams EXCEPT ![streamId] =
                [s EXCEPT !.paused = FALSE]])

resumeStream(caller, streamId) ==
    LET s == StreamAt(streams, streamId) IN
    IF caller # owner THEN Lifecycle("NotOwner", streams)
    ELSE IF ~s.active THEN Lifecycle("StreamInactive", streams)
    ELSE IF ~s.paused THEN Lifecycle("NotPaused", streams)
    ELSE Lifecycle("ok", [streams EXCEPT ![streamId] =
                [s EXCEPT !.lastCheckpoint = checkpointAt(now), !.paused = FALSE]])

\* a cancellation that deactivates every stream
cancelStream_all(caller, streamId) ==
    LET s == StreamAt(streams, streamId) IN
    IF caller # owner THEN Lifecycle("NotOwner", streams)
    ELSE IF ~s.active THEN Lifecycle("StreamInactive", streams)
    ELSE Lifecycle("ok", [i \in DOMAIN streams |->
                [streams[i] EXCEPT !.lastCheckpoint = checkpointAt(now),
                                   !.active = FALSE]])

cancelStream(caller, streamId) ==
    LET s == StreamAt(streams, streamId) IN
    IF caller # owner THEN Lifecycle("NotOwner", streams)
    ELSE IF ~s.active THEN Lifecycle("StreamInactive", streams)
    ELSE Lifecycle("ok", [streams EXCEPT ![streamId] =
                [s EXCEPT !.lastCheckpoint = checkpointAt(now), !.active = FALSE]])

\* a schedule that accepts a release at the current time
scheduleBonus_atNow(caller, streamId, amount, releaseTime) ==
    LET s == StreamAt(streams, streamId) IN
    IF caller # owner THEN Lifecycle("NotOwner", streams)
    ELSE IF ~s.active THEN Lifecycle("StreamInactive", streams)
    ELSE IF amount = 0 THEN Lifecycle("ZeroAmount", streams)
    ELSE IF releaseTime < now THEN Lifecycle("ReleaseInPast", streams)
    ELSE Lifecycle("ok", [streams EXCEPT ![streamId] =
                [s EXCEPT !.bonusAmount = amount,
                          !.bonusReleaseTime = releaseTime,
                          !.bonusClaimed = FALSE]])

\* a schedule that also moves the checkpoint back to the epoch
scheduleBonus_rewinds(caller, streamId, amount, releaseTime) ==
    LET s == StreamAt(streams, streamId) IN
    IF caller # owner THEN Lifecycle("NotOwner", streams)
    ELSE IF ~s.active THEN Lifecycle("StreamInactive", streams)
    ELSE IF amount = 0 THEN Lifecycle("ZeroAmount", streams)
    ELSE IF releaseTime <= now THEN Lifecycle("ReleaseInPast", streams)
    ELSE Lifecycle("ok", [streams EXCEPT ![streamId] =
                [s EXCEPT !.bonusAmount = amount,
                          !.bonusReleaseTime = releaseTime,
                          !.bonusClaimed = FALSE,
                          !.lastCheckpoint = 0]])

scheduleBonus(caller, streamId, amount, releaseTime) ==
    LET s == StreamAt(streams, streamId) IN
    IF caller # owner THEN Lifecycle("NotOwner", streams)
    ELSE IF ~s.active THEN Lifecycle("StreamInactive", streams)
    ELSE IF amount = 0 THEN Lifecycle("ZeroAmount", streams)
    ELSE IF releaseTime <= now THEN Lifecycle("ReleaseInPast", streams)
    ELSE Lifecycle("ok", [streams EXCEPT ![streamId] =
                [s EXCEPT !.bonusAmount = amount,
                          !.bonusReleaseTime = releaseTime,
                          !.bonusClaimed = FALSE]])

\* ------------------------------------------------------------ stream creation

Created(e, ss, id) == [err |-> e, streams |-> ss, nextStreamId |-> id]

\* a store that always writes slot 0
storeStream_atZero(ss, id, emp, ratePerSecond, taxBps, checkpoint) ==
    [i \in DOMAIN ss \cup {0} |->
        IF i = 0 THEN NewStream(emp, ratePerSecond, taxBps, checkpoint)
        ELSE ss[i]]

\* streams[id] = Stream({...}) for id = nextStreamId++
storeStream(ss, id, emp, ratePerSecond, taxBps, checkpoint) ==
    [i \in DOMAIN ss \cup {id} |->
        IF i = id THEN NewStream(emp, ratePerSecond, taxBps, checkpoint)
        ELSE ss[i]]

createStream(caller, emp, ratePerSecond, taxBps) ==
    LET v == validateStreamParams(emp, ratePerSecond, taxBps) IN
    IF caller # owner THEN Created("NotOwner", streams, nextStreamId)
    ELSE IF v # "ok" THEN Created(v, streams, nextStreamId)
    ELSE Created("ok",
                 storeStream(streams, nextStreamId, emp, ratePerSecond, taxBps,
                             checkpointAt(now)),
                 nextStreamId + 1)

\* a loop that stops at the failing entry and keeps what it stored before it
RECURSIVE batchLoop_partial(_, _, _, _, _, _)
batchLoop_partial(inputs, i, j, ss, id, checkpoint) ==
    IF i > j THEN Created("ok", ss, id)
    ELSE IF i = j
    THEN LET inp == inputs[i]
             v == validateStreamParams(inp.employee, inp.ratePerSecond, inp.taxBps)
         IN IF v # "ok" THEN Created(v, ss, id)
            ELSE Created("ok",
                         storeStream(ss, id, inp.employee, inp.ratePerSecond,
                                     inp.taxBps, checkpoint),
                         id + 1)
    ELSE LET mid == (i + j) \div 2
             first == batchLoop_partial(inputs, i, mid, ss, id, checkpoint)
         IN IF first.err # "ok" THEN first
            ELSE batchLoop_partial(inputs, mid + 1, j, first.streams,
                                   first.nextStreamId, checkpoint)

\* the loop of batchCreateStreams over the entries i..j, in order; a failing
\* entry reverts all.  The range is split in two so that the evaluation nests
\* no deeper than the logarithm of the list's length.
RECURSIVE batchLoop(_, _, _, _, _, _)
batchLoop(inputs, i, j, ss, id, checkpoint) ==
    IF i > j THEN Created("ok", ss, id)
    ELSE IF i = j
    THEN LET inp == inputs[i]
             v == validateStreamParams(inp.employee, inp.ratePerSecond, inp.taxBps)
         IN IF v # "ok" THEN Created(v, streams, nextStreamId)
            ELSE Created("ok",
                         storeStream(ss, id, inp.employee, inp.ratePerSecond,
                                     inp.taxBps, checkpoint),
                         id + 1)
    ELSE LET mid == (i + j) \div 2
             first == batchLoop(inputs, i, mid, ss, id, checkpoint)
         IN IF first.err # "ok" THEN first
            ELSE batchLoop(inputs, mid + 1, j, first.streams,
                           first.nextStreamId, checkpoint)

\* a batch whose length limit excludes MAX_BATCH itself
batchCreateStreams_belowMax(caller, inputs) ==
    IF caller # owner THEN Created("NotOwner", streams, nextStreamId)
    ELSE IF Len(inputs) = 0 \/ Len(inputs) >= MAX_BATCH
        THEN Created("InvalidBatchSize", streams, nextStreamId)
    ELSE batchLoop(inputs, 1, Len(inputs), streams, nextStreamId,
                   checkpointAt(now))

batchCreateStreams(caller, inputs) ==
    IF caller # owner THEN Created("NotOwner", streams, nextStreamId)
    ELSE IF Len(inputs) = 0 \/ Len(inputs) > MAX_BATCH
        THEN Created("InvalidBatchSize", streams, nextStreamId)
    ELSE batchLoop(inputs, 1, Len(inputs), streams, nextStreamId,
                   checkpointAt(now))

\* ------------------------------------------------------------------ deposits

Deposited(e, yv, b, pool) ==
    [err |-> e, yieldVault |-> yv, balances |-> b, sponsorshipPool |-> pool]

\* a deposit that books the principal but leaves the tokens in the manager
depositTreasury_keepsTokens(caller, amount) ==
    LET pulledIn == Transfer(balances, caller, manager, amount)
        d == vaultDeposit(yieldVault, pulledIn, vaultOwner, manager, amount, now)
    IN
    IF caller # owner
        THEN Deposited("NotOwner", yieldVault, balances, sponsorshipPool)
    ELSE IF amount = 0
        THEN Deposited("ZeroAmount", yieldVault, balances, sponsorshipPool)
    ELSE IF ~CanTransfer(balances, caller, amount)
        THEN Deposited("ERC20InsufficientBalance", yieldVault, balances,
                       sponsorshipPool)
    ELSE IF d.err # "ok"
        THEN Deposited(d.err, yieldVault, balances, sponsorshipPool)
    ELSE Deposited("ok", d.yieldVault, pulledIn, sponsorshipPool)

depositTreasury(caller, amount) ==
    LET pulledIn == Transfer(balances, caller, manager, amount)
        d == vaultDeposit(yieldVault, pulledIn, vaultOwner, manager, amount, now)
    IN
    IF caller # owner
        THEN Deposited("NotOwner", yieldVault, balances, sponsorshipPool)
    ELSE IF amount = 0
        THEN Deposited("ZeroAmount", yieldVault, balances, sponsorshipPool)
    ELSE IF ~CanTransfer(balances, caller, amount)
        THEN Deposited("ERC20InsufficientBalance", yieldVault, balances,
                       sponsorshipPool)
    ELSE IF d.err # "ok"
        THEN Deposited(d.err, yieldVault, balances, sponsorshipPool)
    ELSE Deposited("ok", d.yieldVault, d.balances, sponsorshipPool)

\* a pool deposit whose tokens arrive without being counted
depositSponsorshipPool_uncounted(caller, amount) ==
    IF caller # owner
        THEN Deposited("NotOwner", yieldVault, balances, sponsorshipPool)
    ELSE IF amount = 0
        THEN Deposited("ZeroAmount", yieldVault, balances, sponsorshipPool)
    ELSE IF ~CanTransfer(balances, caller, amount)
        THEN Deposited("ERC20InsufficientBalance", yieldVault, balances,
                       sponsorshipPool)
    ELSE Deposited("ok", yieldVault, Transfer(balances, caller, manager, amount),
                   sponsorshipPool)

depositSponsorshipPool(caller, amount) ==
    IF caller # owner
        THEN Deposited("NotOwner", yieldVault, balances, sponsorshipPool)
    ELSE IF amount = 0
        THEN Deposited("ZeroAmount", yieldVault, balances, sponsorshipPool)
    ELSE IF ~CanTransfer(balances, caller, amount)
        THEN Deposited("ERC20InsufficientBalance", yieldVault, balances,
                       sponsorshipPool)
    ELSE Deposited("ok", yieldVault, Transfer(balances, caller, manager, amount),
                   sponsorshipPool + amount)

\* a rate switch that credits nothing for the time at the old rate
setYieldRate_noAccrual(caller, bps) ==
    IF caller # vaultOwner THEN [err |-> "NotOwner", yieldVault |-> yieldVault]
    ELSE IF bps > MAX_YIELD_BPS
        THEN [err |-> "RateTooHigh", yieldVault |-> yieldVault]
    ELSE [err |-> "ok",
          yieldVault |-> [yieldVault EXCEPT !.yieldRateBps = bps,
                                            !.lastUpdate = now]]

\* YieldVault.setYieldRate(bps)
setYieldRate(caller, bps) ==
    IF caller # vaultOwner THEN [err |-> "NotOwner", yieldVault |-> yieldVault]
    ELSE IF bps > MAX_YIELD_BPS
        THEN [err |-> "RateTooHigh", yieldVault |-> yieldVault]
    ELSE [err |-> "ok",
          yieldVault |-> [simulateYield(yieldVault, now) EXCEPT !.yieldRateBps = bps]]

\* Ownable.transferOwnership(newOwner) on the YieldVault
transferOwnership(caller, newOwner) ==
    IF caller # vaultOwner THEN [err |-> "NotOwner", vaultOwner |-> vaultOwner]
    ELSE IF newOwner = ZeroAddress
        THEN [err |-> "ZeroAddress", vaultOwner |-> vaultOwner]
    ELSE [err |-> "ok", vaultOwner |-> newOwner]

\* ----------------------------------------------------------------- TaxVault

\* the deployer of the TaxVault owns it
taxVaultOwner == owner

Taxed(e, b, total) == [err |-> e, balances |-> b, totalTaxCollected |-> total]

\* TaxVault.depositTax(amount): open to every caller
depositTax(caller, amount) ==
    IF amount = 0 THEN Taxed("ZeroAmount", balances, totalTaxCollected)
    ELSE IF ~CanTransfer(balances, caller, amount)
        THEN Taxed("ERC20InsufficientBalance", balances, totalTaxCollected)
    ELSE Taxed("ok", Transfer(balances, caller, taxVault, amount),
               totalTaxCollected + amount)

\* a withdrawTax without its onlyOwner modifier
withdrawTax_anyCaller(caller, to, amount) ==
    IF to = ZeroAddress THEN Taxed("ZeroAddress", balances, totalTaxCollected)
    ELSE IF amount = 0 THEN Taxed("ZeroAmount", balances, totalTaxCollected)
    ELSE IF ~CanTransfer(balances, taxVault, amount)
        THEN Taxed("ERC20InsufficientBalance", balances, totalTaxCollected)
    ELSE Taxed("ok", Transfer(balances, taxVault, to, amount),
               totalTaxCollected)

\* TaxVault.withdrawTax(to, amount)
withdrawTax(caller, to, amount) ==
    IF caller # taxVaultOwner
        THEN Taxed("NotOwner", balances, totalTaxCollected)
    ELSE IF to = ZeroAddress THEN Taxed("ZeroAddress", balances, totalTaxCollected)
    ELSE IF amount = 0 THEN Taxed("ZeroAmount", balances, totalTaxCollected)
    ELSE IF ~CanTransfer(balances, taxVault, amount)
        THEN Taxed("ERC20InsufficientBalance", balances, totalTaxCollected)
    ELSE Taxed("ok", Transfer(balances, taxVault, to, amount),
               totalTaxCollected)

\* ------------------------------------------------------------------- inputs

\* the payloads a submitted signature may have been made over: the call's own
\* and those differing from it in one field
PayloadsNear(streamId, nonce, deadline) ==
    {Payload(streamId + 1, nonce, deadline),
     Payload(streamId, nonce + 1, deadline),
     Payload(streamId, nonce, deadline + 1)}

\* the call's payload signed by either account, and a neighbouring payload
\* signed by the stream's employee
SignaturesFor(streamId, nonce, deadline) ==
    {Signature(sg, Payload(streamId, nonce, deadline)) : sg \in Signers}
    \cup {Signature(StreamAt(streams, streamId).employee, pl) :
            pl \in PayloadsNear(streamId, nonce, deadline)}

\* release times a bonus may be scheduled for: this block's time (rejected)
\* and the next block's
ReleaseTimes == {t \in {now, now + 1} : t <= MaxTime}

\* deadlines a call may carry: already expired, or expiring with this block
Deadlines == {d \in {now - 1, now} : d >= 0}

StreamInput(emp, ratePerSecond, taxBps) ==
    [employee |-> emp, ratePerSecond |-> ratePerSecond, taxBps |-> taxBps]

BatchChoices ==
    {<<>>,
     <<StreamInput(employee, 3, 5000)>>,
     <<StreamInput(employee, 3, 5000), StreamInput(other, 3, 5000)>>,
     <<StreamInput(other, 3, 5000), StreamInput(ZeroAddress, 3, 5000)>>}

\* ------------------------------------------------------------------ history

\* `last` is the latest withdrawal that went through.  A call that reverts changes
\* nothing: it is a stuttering step, which every action below leaves to the
\* stuttering that the specification allows by guarding on the call's success.
Payout(op, streamId, r, fee) ==
    [op |-> op, streamId |-> streamId, time |-> now,
     accrued |-> r.accrued, bonus |-> r.bonus, tax |-> r.tax,
     net |-> r.net, fee |-> fee]

NewLedger == [unpaid |-> 0, resumedAt |-> NoTime]

\* the ledger over the streams ss, new streams starting with nothing earned
LedgerFor(ss) ==
    [i \in DOMAIN ss |-> IF i \in DOMAIN ledger THEN ledger[i] ELSE NewLedger]

\* ------------------------------------------------------------------ actions

Init ==
    /\ now = 0
    /\ streams = [i \in {} |-> ZeroStream]
    /\ nextStreamId = 0
    /\ nonces = [a \in EmployeeChoices |-> 0]
    /\ sponsorshipPool = 0
    /\ \E bps \in DeployedYieldBps :
        yieldVault = [totalPrincipal |-> 0, yieldRateBps |-> bps,
                      lastUpdate |-> 0, accumulatedYield |-> 0]
    /\ vaultOwner = manager
    /\ totalTaxCollected = 0
    /\ balances = [h \in Holders |-> IF h = owner THEN MintAmount ELSE 0]
    /\ last = [op |-> "none", streamId |-> NoStream, time |-> 0,
               accrued |-> 0, bonus |-> 0, tax |-> 0, net |-> 0, fee |-> 0]
    /\ ledger = [i \in {} |-> NewLedger]
    /\ accepted = {}

\* a block is mined one time unit later
Tick ==
    /\ now < MaxTime
    /\ now' = now + 1
    /\ ledger' = [i \in DOMAIN ledger |->
                    IF streams[i].active /\ ~streams[i].paused
                    THEN [ledger[i] EXCEPT !.unpaid = @ + 1]
                    ELSE ledger[i]]
    /\ UNCHANGED <<streams, nextStreamId, nonces, sponsorshipPool, yieldVault,
                   vaultOwner, totalTaxCollected, balances, last, accepted>>

DepositTreasury(caller, amount) ==
    LET r == depositTreasury(caller, amount) IN
    /\ r.err = "ok"
    /\ yieldVault' = r.yieldVault
    /\ balances' = r.balances
    /\ UNCHANGED <<now, last, streams, nextStreamId, nonces, sponsorshipPool,
                   vaultOwner, totalTaxCollected, ledger, accepted>>

DepositSponsorshipPool(caller, amount) ==
    LET r == depositSponsorshipPool(caller, amount) IN
    /\ r.err = "ok"
    /\ r.sponsorshipPool <= MaxSponsorship
    /\ sponsorshipPool' = r.sponsorshipPool
    /\ balances' = r.balances
    /\ UNCHANGED <<now, last, streams, nextStreamId, nonces, yieldVault,
                   vaultOwner, totalTaxCollected, ledger, accepted>>

DepositTax(caller, amount) ==
    LET r == depositTax(caller, amount) IN
    /\ r.err = "ok"
    /\ r.totalTaxCollected <= MaxTaxDeposited
    /\ balances' = r.balances
    /\ totalTaxCollected' = r.totalTaxCollected
    /\ UNCHANGED <<now, last, streams, nextStreamId, nonces, sponsorshipPool,
                   yieldVault, vaultOwner, ledger, accepted>>

WithdrawTax(caller, to, amount) ==
    LET r == withdrawTax(caller, to, amount) IN
    /\ r.err = "ok"
    /\ balances' = r.balances
    /\ totalTaxCollected' = r.totalTaxCollected
    /\ UNCHANGED <<now, last, streams, nextStreamId, nonces, sponsorshipPool,
                   yieldVault, vaultOwner, ledger, accepted>>

CreateStream(cap, caller, emp, ratePerSecond, taxBps) ==
    LET r == createStream(caller, emp, ratePerSecond, taxBps) IN
    /\ r.err = "ok"
    /\ r.nextStreamId <= cap
    /\ streams' = r.streams
    /\ nextStreamId' = r.nextStreamId
    /\ ledger' = LedgerFor(r.streams)
    /\ UNCHANGED <<now, last, nonces, sponsorshipPool, yieldVault, vaultOwner,
                   totalTaxCollected, balances, accepted>>

BatchCreateStreams(cap, caller, inputs) ==
    LET r == batchCreateStreams(caller, inputs) IN
    /\ r.err = "ok"
    /\ r.nextStreamId <= cap
    /\ streams' = r.streams
    /\ nextStreamId' = r.nextStreamId
    /\ ledger' = LedgerFor(r.streams)
    /\ UNCHANGED <<now, last, nonces, sponsorshipPool, yieldVault, vaultOwner,
                   totalTaxCollected, balances, accepted>>

ScheduleBonus(caller, streamId, amount, releaseTime) ==
    LET r == scheduleBonus(caller, streamId, amount, releaseTime) IN
    /\ r.err = "ok"
    /\ streams' = r.streams
    /\ UNCHANGED <<now, last, nextStreamId, nonces, sponsorshipPool, yieldVault,
                   vaultOwner, totalTaxCollected, balances, ledger, accepted>>

PauseStream(caller, streamId) ==
    LET r == pauseStream(caller, streamId) IN
    /\ r.err = "ok"
    /\ streams' = r.streams
    /\ UNCHANGED <<now, last, nextStreamId, nonces, sponsorshipPool, yieldVault,
                   vaultOwner, totalTaxCollected, balances, ledger, accepted>>

ResumeStream(caller, streamId) ==
    LET r == resumeStream(caller, streamId) IN
    /\ r.err = "ok"
    /\ streams' = r.streams
    /\ ledger' = [ledger EXCEPT ![streamId].resumedAt = now]
    /\ UNCHANGED <<now, last, nextStreamId, nonces, sponsorshipPool, yieldVault,
                   vaultOwner, totalTaxCollected, balances, accepted>>

CancelStream(caller, streamId) ==
    LET r == cancelStream(caller, streamId) IN
    /\ r.err = "ok"
    /\ streams' = r.streams
    /\ UNCHANGED <<now, last, nextStreamId, nonces, sponsorshipPool, yieldVault,
                   vaultOwner, totalTaxCollected, balances, ledger, accepted>>

Withdraw(caller, streamId) ==
    LET r == withdraw(caller, streamId) IN
    /\ r.err = "ok"
    /\ streams' = r.streams
    /\ yieldVault' = r.yieldVault
    /\ balances' = r.balances
    /\ ledger' = [ledger EXCEPT ![streamId] = NewLedger]
    /\ last' = Payout("withdraw", streamId, r, 0)
    /\ UNCHANGED <<now, nextStreamId, nonces, sponsorshipPool, vaultOwner,
                   totalTaxCollected, accepted>>

WithdrawSigned(caller, streamId, nonce, deadline, relayerFee, signature) ==
    LET r == withdrawSigned(caller, streamId, nonce, deadline, relayerFee,
                            signature)
    IN
    /\ r.err = "ok"
    /\ streams' = r.streams
    /\ yieldVault' = r.yieldVault
    /\ balances' = r.balances
    /\ nonces' = r.nonces
    /\ sponsorshipPool' = r.sponsorshipPool
    /\ ledger' = [ledger EXCEPT ![streamId] = NewLedger]
    /\ accepted' = accepted \cup {<<streams[streamId].employee, nonce>>}
    /\ last' = Payout("withdrawSigned", streamId, r, relayerFee)
    /\ UNCHANGED <<now, nextStreamId, vaultOwner, totalTaxCollected>>

\* every operation, on at most MaxStreams streams
Next ==
    \/ Tick
    \/ \E c \in AdminCallers, a \in AmountChoices : DepositTreasury(c, a)
    \/ \E c \in AdminCallers, a \in SponsorChoices :
            DepositSponsorshipPool(c, a)
    \/ \E c \in AdminCallers, e \in EmployeeChoices, r \in RateChoices,
          x \in TaxChoices : CreateStream(MaxStreams, c, e, r, x)
    \/ \E c \in AdminCallers, inputs \in BatchChoices :
            BatchCreateStreams(MaxStreams, c, inputs)
    \/ \E c \in AdminCallers, id \in StreamIds, a \in BonusChoices,
          t \in ReleaseTimes : ScheduleBonus(c, id, a, t)
    \/ \E c \in AdminCallers, id \in StreamIds : PauseStream(c, id)
    \/ \E c \in AdminCallers, id \in StreamIds : ResumeStream(c, id)
    \/ \E c \in AdminCallers, id \in StreamIds : CancelStream(c, id)
    \/ \E c \in WithdrawCallers, id \in StreamIds : Withdraw(c, id)
    \/ \E c \in WithdrawCallers, id \in StreamIds, n \in Nonces,
          d \in Deadlines, f \in FeeChoices :
            \E sig \in SignaturesFor(id, n, d) :
                WithdrawSigned(c, id, n, d, f, sig)

Spec == Init /\ [][Next]_vars

\* creation, cancellation and both withdrawal paths, on up to MaxPairStreams
\* streams
NextPair ==
    \/ Tick
    \/ \E c \in AdminCallers, a \in AmountChoices : DepositTreasury(c, a)
    \/ \E c \in AdminCallers, e \in EmployeeChoices, r \in RateChoices,
          x \in TaxChoices : CreateStream(MaxPairStreams, c, e, r, x)
    \/ \E c \in AdminCallers, inputs \in BatchChoices :
            BatchCreateStreams(MaxPairStreams, c, inputs)
    \/ \E c \in AdminCallers, id \in PairIds : CancelStream(c, id)
    \/ \E c \in WithdrawCallers, id \in PairIds : Withdraw(c, id)
    \/ \E c \in WithdrawCallers, id \in PairIds, n \in Nonces,
          d \in Deadlines, f \in FeeChoices :
            \E sig \in SignaturesFor(id, n, d) :
                WithdrawSigned(c, id, n, d, f, sig)

SpecPair == Init /\ [][NextPair]_vars

\* every operation that writes a stream, on up to MaxPairStreams streams
NextFrame ==
    \/ Tick
    \/ \E c \in AdminCallers, a \in AmountChoices : DepositTreasury(c, a)
    \/ \E c \in AdminCallers, e \in {ZeroAddress, employee},
          r \in RateChoices, x \in TaxChoices :
            CreateStream(MaxPairStreams, c, e, r, x)
    \/ \E c \in AdminCallers, id \in PairIds, a \in BonusChoices,
          t \in ReleaseTimes : ScheduleBonus(c, id, a, t)
    \/ \E c \in AdminCallers, id \in PairIds : PauseStream(c, id)
    \/ \E c \in AdminCallers, id \in PairIds : ResumeStream(c, id)
    \/ \E c \in AdminCallers, id \in PairIds : CancelStream(c, id)
    \/ \E c \in WithdrawCallers, id \in PairIds : Withdraw(c, id)

SpecFrame == Init /\ [][NextFrame]_vars

\* rates and tax rates at and around the limits of _validateStreamParams
RateProbes == {0, 1, 3, MAX_RATE, MAX_RATE + 1}
TaxProbes == {0, 5000, MAX_TAX_BPS, MAX_TAX_BPS + 1}

\* a list of n valid entries
BatchOf(n) == [i \in 1..n |-> StreamInput(employee, 3, 5000)]

\* lists of every accepted and rejected length, and lists with one entry that
\* fails validation, at each position
BatchProbes ==
    BatchChoices
    \cup {BatchOf(MAX_BATCH), BatchOf(MAX_BATCH + 1)}
    \cup {<<StreamInput(ZeroAddress, 3, 5000), StreamInput(employee, 3, 5000)>>,
          <<StreamInput(employee, 3, 5000), StreamInput(other, 0, 5000)>>,
          <<StreamInput(employee, 3, 5000),
            StreamInput(other, MAX_RATE + 1, 5000)>>,
          <<StreamInput(employee, MAX_RATE, MAX_TAX_BPS),
            StreamInput(other, 3, MAX_TAX_BPS + 1)>>}

\* stream creation alone, with inputs at the limits: single streams and short
\* lists while at most MaxCreated streams exist, and any list on the fresh
\* contract
NextCreate ==
    \/ Tick
    \/ \E c \in AdminCallers, e \in EmployeeChoices, r \in RateProbes,
          x \in TaxProbes : CreateStream(MaxCreated, c, e, r, x)
    \/ \E c \in AdminCallers, inputs \in BatchProbes :
            /\ nextStreamId = 0 \/ nextStreamId + Len(inputs) <= MaxCreated
            /\ BatchCreateStreams(MAX_BATCH + MaxCreated, c, inputs)

SpecCreate == Init /\ [][NextCreate]_vars

\* ------------------------------------------------- the vault before hand-over

\* the routes by which tokens reach and leave the TaxVault: stream
\* withdrawals, direct and signed, and the TaxVault's own two functions
NextTax ==
    \/ Tick
    \/ \E c \in AdminCallers, a \in AmountChoices : DepositTreasury(c, a)
    \/ \E c \in AdminCallers, a \in TaxDepositChoices : DepositTax(c, a)
    \/ \E c \in AdminCallers, to \in RecipientChoices,
          a \in TaxDepositChoices : WithdrawTax(c, to, a)
    \/ \E c \in AdminCallers, e \in EmployeeChoices, r \in RateChoices,
          x \in TaxChoices : CreateStream(MaxStreams, c, e, r, x)
    \/ \E c \in AdminCallers, id \in StreamIds, a \in BonusChoices,
          t \in ReleaseTimes : ScheduleBonus(c, id, a, t)
    \/ \E c \in WithdrawCallers, id \in StreamIds : Withdraw(c, id)
    \/ \E c \in WithdrawCallers, id \in StreamIds, n \in Nonces,
          d \in Deadlines, f \in FeeChoices :
            \E sig \in SignaturesFor(id, n, d) :
                WithdrawSigned(c, id, n, d, f, sig)

SpecTax == Init /\ [][NextTax]_vars

\* The state after the three contracts are constructed and the owner's tokens
\* minted: the deployer owns the YieldVault, whose rate is still 0.
InitVault ==
    /\ now = 0
    /\ streams = [i \in {} |-> ZeroStream]
    /\ nextStreamId = 0
    /\ nonces = [a \in EmployeeChoices |-> 0]
    /\ sponsorshipPool = 0
    /\ yieldVault = [totalPrincipal |-> 0, yieldRateBps |-> 0,
                      lastUpdate |-> 0, accumulatedYield |-> 0]
    /\ vaultOwner = owner
    /\ totalTaxCollected = 0
    /\ balances = [h \in Holders |-> IF h = owner THEN MintAmount ELSE 0]
    /\ last = [op |-> "none", streamId |-> NoStream, time |-> 0,
               accrued |-> 0, bonus |-> 0, tax |-> 0, net |-> 0, fee |-> 0]
    /\ ledger = [i \in {} |-> NewLedger]
    /\ accepted = {}

\* amounts and recipients of direct calls of YieldVault.withdraw
VaultWithdrawChoices == {0, 1, 40}
NewOwnerChoices == {ZeroAddress, manager}
VaultYieldChoices == {0, 500, MAX_YIELD_BPS, MAX_YIELD_BPS + 1}

\* YieldVault.deposit(amount) called directly
VaultDeposit(caller, amount) ==
    LET r == vaultDeposit(yieldVault, balances, vaultOwner, caller, amount, now)
    IN
    /\ r.err = "ok"
    /\ yieldVault' = r.yieldVault
    /\ balances' = r.balances
    /\ UNCHANGED <<now, last, streams, nextStreamId, nonces, sponsorshipPool,
                   vaultOwner, totalTaxCollected, ledger, accepted>>

\* YieldVault.withdraw(amount, to) called directly
VaultWithdraw(caller, amount, to) ==
    LET r == vaultWithdraw(yieldVault, balances, vaultOwner, caller, amount,
                           to, now)
    IN
    /\ r.err = "ok"
    /\ yieldVault' = r.yieldVault
    /\ balances' = r.balances
    /\ UNCHANGED <<now, last, streams, nextStreamId, nonces, sponsorshipPool,
                   vaultOwner, totalTaxCollected, ledger, accepted>>

SetYieldRate(caller, bps) ==
    LET r == setYieldRate(caller, bps) IN
    /\ r.err = "ok"
    /\ yieldVault' = r.yieldVault
    /\ UNCHANGED <<now, last, streams, nextStreamId, nonces, sponsorshipPool,
                   vaultOwner, totalTaxCollected, balances, ledger, accepted>>

TransferOwnership(caller, newOwner) ==
    LET r == transferOwnership(caller, newOwner) IN
    /\ r.err = "ok"
    /\ vaultOwner' = r.vaultOwner
    /\ UNCHANGED <<now, last, streams, nextStreamId, nonces, sponsorshipPool,
                   yieldVault, totalTaxCollected, balances, ledger, accepted>>

\* the vault from its construction on: direct calls by its owner, the
\* hand-over to the StreamManager, and treasury deposits after it
NextVault ==
    \/ Tick
    \/ \E c \in AdminCallers, a \in AmountChoices : VaultDeposit(c, a)
    \/ \E c \in AdminCallers, a \in VaultWithdrawChoices,
          to \in RecipientChoices : VaultWithdraw(c, a, to)
    \/ \E c \in AdminCallers, bps \in VaultYieldChoices : SetYieldRate(c, bps)
    \/ \E c \in AdminCallers, n \in NewOwnerChoices : TransferOwnership(c, n)
    \/ \E c \in AdminCallers, a \in AmountChoices : DepositTreasury(c, a)

SpecVault == InitVault /\ [][NextVault]_vars

\* ---- accrual events of the vault over an interval ----

\* principals and rates the vault holds when the interval starts
AccrualPrincipals == {0, 39, 40}
AccrualRates == {0, 500, MAX_YIELD_BPS}
AccrualDepositChoices == {0, 1}
AccrualWithdrawChoices == {0, 1}

\* the record of the running interval: when it started, how many accrual
\* events split it so far and the yield those events credited, with the
\* number of accrual events since construction
Interval(since, events, credited, calls) ==
    [op |-> "accrue", since |-> since, events |-> events,
     credited |-> credited, calls |-> calls]

\* the vault after the owner deposited `p` and set the rate at time 0
InitAccrual ==
    /\ now = 0
    /\ streams = [i \in {} |-> ZeroStream]
    /\ nextStreamId = 0
    /\ nonces = [a \in EmployeeChoices |-> 0]
    /\ sponsorshipPool = 0
    /\ \E p \in AccrualPrincipals, bps \in AccrualRates :
         /\ yieldVault = [totalPrincipal |-> p, yieldRateBps |-> bps,
                          lastUpdate |-> 0, accumulatedYield |-> 0]
         /\ balances = [h \in Holders |->
                          IF h = owner THEN MintAmount - p
                          ELSE IF h = vault THEN p ELSE 0]
    /\ vaultOwner = owner
    /\ totalTaxCollected = 0
    /\ last = Interval(0, 0, 0, 0)
    /\ ledger = [i \in {} |-> NewLedger]
    /\ accepted = {}

\* block.timestamp advances
AccrualTick ==
    /\ now < MaxAccrualTime
    /\ now' = now + 1
    /\ UNCHANGED <<streams, nextStreamId, nonces, sponsorshipPool, yieldVault,
                   vaultOwner, totalTaxCollected, balances, last, ledger,
                   accepted>>

\* the interval after an accrual event that led to the vault `after`: an
\* event that keeps principal and rate splits the interval, any other
\* starts a new one
IntervalAfter(after) ==
    IF /\ after.totalPrincipal = yieldVault.totalPrincipal
       /\ after.yieldRateBps = yieldVault.yieldRateBps
    THEN Interval(last.since, last.events + 1,
                  last.credited + pendingYield(yieldVault, now),
                  last.calls + 1)
    ELSE Interval(now, 0, 0, last.calls + 1)

\* YieldVault.setYieldRate(bps) as an accrual event
AccrualSetYieldRate(caller, bps) ==
    LET r == setYieldRate(caller, bps) IN
    /\ r.err = "ok"
    /\ last.calls < MaxEvents
    /\ yieldVault' = r.yieldVault
    /\ last' = IntervalAfter(r.yieldVault)
    /\ UNCHANGED <<now, streams, nextStreamId, nonces, sponsorshipPool,
                   vaultOwner, totalTaxCollected, balances, ledger, accepted>>

\* YieldVault.deposit(amount) as an accrual event
AccrualDeposit(caller, amount) ==
    LET r == vaultDeposit(yieldVault, balances, vaultOwner, caller, amount, now)
    IN
    /\ r.err = "ok"
    /\ last.calls < MaxEvents
    /\ yieldVault' = r.yieldVault
    /\ balances' = r.balances
    /\ last' = IntervalAfter(r.yieldVault)
    /\ UNCHANGED <<now, streams, nextStreamId, nonces, sponsorshipPool,
                   vaultOwner, totalTaxCollected, ledger, accepted>>

\* YieldVault.withdraw(amount, to) as an accrual event
AccrualWithdraw(caller, amount, to) ==
    LET r == vaultWithdraw(yieldVault, balances, vaultOwner, caller, amount,
                           to, now)
    IN
    /\ r.err = "ok"
    /\ last.calls < MaxEvents
    /\ yieldVault' = r.yieldVault
    /\ balances' = r.balances
    /\ last' = IntervalAfter(r.yieldVault)
    /\ UNCHANGED <<now, streams, nextStreamId, nonces, sponsorshipPool,
                   vaultOwner, totalTaxCollected, ledger, accepted>>

NextAccrual ==
    \/ AccrualTick
    \/ \E c \in AdminCallers, bps \in AccrualRates :
          AccrualSetYieldRate(c, bps)
    \/ \E c \in AdminCallers, a \in AccrualDepositChoices :
          AccrualDeposit(c, a)
    \/ \E c \in AdminCallers, a \in AccrualWithdrawChoices,
          to \in RecipientChoices : AccrualWithdraw(c, a, to)

SpecAccrual == InitAccrual /\ [][NextAccrual]_vars

\* ------------------------------------------------ a stream's whole history

\* The ledger kept over a stream's whole life: besides the time earned since
\* the last payment (unpaid) and the last resume, the salary paid so far, the
\* time earned up to the last payment, and the times of creation and of the
\* last payment.  resumedAt is kept across payments here.
AuditLedger(t) ==
    [unpaid |-> 0, resumedAt |-> NoTime, paid |-> 0, earning |-> 0,
     createdAt |-> t, paidAt |-> t]

\* the ledger entry of a stream after a withdrawal that paid `accrued` salary
AuditPaid(entry, accrued) ==
    [entry EXCEPT !.unpaid = 0, !.paid = @ + accrued,
                  !.earning = @ + entry.unpaid, !.paidAt = now]

AuditCreateStream(cap, caller, emp, ratePerSecond, taxBps) ==
    LET r == createStream(caller, emp, ratePerSecond, taxBps) IN
    /\ r.err = "ok"
    /\ r.nextStreamId <= cap
    /\ streams' = r.streams
    /\ nextStreamId' = r.nextStreamId
    /\ ledger' = [i \in DOMAIN r.streams |->
                    IF i \in DOMAIN ledger THEN ledger[i] ELSE AuditLedger(now)]
    /\ UNCHANGED <<now, last, nonces, sponsorshipPool, yieldVault, vaultOwner,
                   totalTaxCollected, balances, accepted>>

AuditWithdraw(caller, streamId) ==
    LET r == withdraw(caller, streamId) IN
    /\ r.err = "ok"
    /\ streams' = r.streams
    /\ yieldVault' = r.yieldVault
    /\ balances' = r.balances
    /\ ledger' = [ledger EXCEPT ![streamId] = AuditPaid(@, r.accrued)]
    /\ last' = Payout("withdraw", streamId, r, 0)
    /\ UNCHANGED <<now, nextStreamId, nonces, sponsorshipPool, vaultOwner,
                   totalTaxCollected, accepted>>

AuditWithdrawSigned(caller, streamId, nonce, deadline, relayerFee, signature) ==
    LET r == withdrawSigned(caller, streamId, nonce, deadline, relayerFee,
                            signature)
    IN
    /\ r.err = "ok"
    /\ streams' = r.streams
    /\ yieldVault' = r.yieldVault
    /\ balances' = r.balances
    /\ nonces' = r.nonces
    /\ sponsorshipPool' = r.sponsorshipPool
    /\ ledger' = [ledger EXCEPT ![streamId] = AuditPaid(@, r.accrued)]
    /\ accepted' = accepted \cup {<<streams[streamId].employee, nonce>>}
    /\ last' = Payout("withdrawSigned", streamId, r, relayerFee)
    /\ UNCHANGED <<now, nextStreamId, vaultOwner, totalTaxCollected>>

\* creation, both withdrawal paths by any caller, pause, resume and cancel,
\* with bonuses, on at most MaxStreams streams
NextAudit ==
    \/ Tick
    \/ \E c \in AdminCallers, a \in AmountChoices : DepositTreasury(c, a)
    \/ \E c \in AdminCallers, e \in EmployeeChoices, r \in RateChoices,
          x \in TaxChoices : AuditCreateStream(MaxStreams, c, e, r, x)
    \/ \E c \in AdminCallers, id \in StreamIds, a \in BonusChoices,
          t \in ReleaseTimes : ScheduleBonus(c, id, a, t)
    \/ \E c \in AdminCallers, id \in StreamIds : PauseStream(c, id)
    \/ \E c \in AdminCallers, id \in StreamIds : ResumeStream(c, id)
    \/ \E c \in AdminCallers, id \in StreamIds : CancelStream(c, id)
    \/ \E c \in WithdrawCallers, id \in StreamIds : AuditWithdraw(c, id)
    \/ \E c \in WithdrawCallers, id \in StreamIds, n \in Nonces,
          d \in Deadlines :
            \E sig \in SignaturesFor(id, n, d) :
                AuditWithdrawSigned(c, id, n, d, 0, sig)

SpecAudit == Init /\ [][NextAudit]_vars

\* ------------------------------------------- a withdrawal, write by write

\* The withdrawal paths taken apart at their external calls.  `last.at` is
\* the call the transaction in progress is about to make, "idle" between
\* transactions; a transaction that would revert is not started, since all
\* it writes is undone.
InitReenter ==
    /\ now = 0
    /\ streams = [i \in {} |-> ZeroStream]
    /\ nextStreamId = 0
    /\ nonces = [a \in EmployeeChoices |-> 0]
    /\ sponsorshipPool = 0
    /\ \E bps \in DeployedYieldBps :
        yieldVault = [totalPrincipal |-> 0, yieldRateBps |-> bps,
                      lastUpdate |-> 0, accumulatedYield |-> 0]
    /\ vaultOwner = manager
    /\ totalTaxCollected = 0
    /\ balances = [h \in Holders |-> IF h = owner THEN MintAmount ELSE 0]
    /\ last = [at |-> "idle", op |-> "none", streamId |-> NoStream,
               time |-> 0, accrued |-> 0, bonus |-> 0, tax |-> 0, net |-> 0,
               fee |-> 0]
    /\ ledger = [i \in {} |-> NewLedger]
    /\ accepted = {}

Idle == last.at = "idle"

\* the transaction in progress and the external call it is about to make
InProgress(op, streamId, r, fee, at) ==
    [at |-> at] @@ Payout(op, streamId, r, fee)

\* a withdrawal whose stream writes wait until the transfers are done
storageAtTransfers_unsettled(before, after) == before

\* the stream table during the external calls of _executeWithdraw:
\* bonusClaimed (line 530) and lastCheckpoint (line 542) are written before
\* yieldVault.withdraw (line 545)
storageAtTransfers(before, after) == after

\* withdraw(streamId), up to the vault pull of _executeWithdraw
EnterWithdraw(caller, streamId) ==
    LET r == withdraw(caller, streamId) IN
    /\ Idle
    /\ r.err = "ok"
    /\ streams' = storageAtTransfers(streams, r.streams)
    /\ last' = InProgress("withdraw", streamId, r, 0, "vaultPull")
    /\ UNCHANGED <<now, nextStreamId, nonces, sponsorshipPool, yieldVault,
                   vaultOwner, totalTaxCollected, balances, ledger, accepted>>

\* withdrawSigned(...), up to the vault pull: the nonce (line 416) and the
\* stream are written
EnterWithdrawSigned(caller, streamId, nonce, deadline, relayerFee, signature) ==
    LET r == withdrawSigned(caller, streamId, nonce, deadline, relayerFee,
                            signature)
    IN
    /\ Idle
    /\ caller = relayer
    /\ r.err = "ok"
    /\ nonces' = r.nonces
    /\ streams' = storageAtTransfers(streams, r.streams)
    /\ accepted' = accepted \cup {<<streams[streamId].employee, nonce>>}
    /\ last' = InProgress("withdrawSigned", streamId, r, relayerFee,
                          "vaultPull")
    /\ UNCHANGED <<now, nextStreamId, sponsorshipPool, yieldVault, vaultOwner,
                   totalTaxCollected, balances, ledger>>

\* yieldVault.withdraw(totalPayout, address(this))
VaultPull ==
    LET v == vaultWithdraw(yieldVault, balances, vaultOwner, manager,
                           last.net + last.tax, manager, now)
    IN
    /\ last.at = "vaultPull"
    /\ v.err = "ok"
    /\ yieldVault' = v.yieldVault
    /\ balances' = v.balances
    /\ last' = [last EXCEPT !.at = "taxTransfer"]
    /\ UNCHANGED <<now, streams, nextStreamId, nonces, sponsorshipPool,
                   vaultOwner, totalTaxCollected, ledger, accepted>>

\* if (tax > 0) HLUSD.transfer(taxVault, tax)
TaxTransfer ==
    /\ last.at = "taxTransfer"
    /\ balances' = IF last.tax > 0
                   THEN Transfer(balances, manager, taxVault, last.tax)
                   ELSE balances
    /\ last' = [last EXCEPT !.at = "employeeTransfer"]
    /\ UNCHANGED <<now, streams, nextStreamId, nonces, sponsorshipPool,
                   yieldVault, vaultOwner, totalTaxCollected, ledger, accepted>>

\* HLUSD.transfer(s.employee, net); on the signed path with a fee the pool
\* is then debited (line 424) ahead of the fee transfer
EmployeeTransfer ==
    LET feeDue == last.op = "withdrawSigned" /\ last.fee > 0 IN
    /\ last.at = "employeeTransfer"
    /\ balances' = Transfer(balances, manager,
                            streams[last.streamId].employee, last.net)
    /\ sponsorshipPool' = IF feeDue THEN debitPool(sponsorshipPool, last.fee)
                          ELSE sponsorshipPool
    /\ last' = [last EXCEPT !.at = IF feeDue THEN "feeTransfer" ELSE "idle"]
    /\ UNCHANGED <<now, streams, nextStreamId, nonces, yieldVault, vaultOwner,
                   totalTaxCollected, ledger, accepted>>

\* HLUSD.transfer(msg.sender, relayerFee)
FeeTransfer ==
    /\ last.at = "feeTransfer"
    /\ balances' = Transfer(balances, manager, relayer, last.fee)
    /\ last' = [last EXCEPT !.at = "idle"]
    /\ UNCHANGED <<now, streams, nextStreamId, nonces, sponsorshipPool,
                   yieldVault, vaultOwner, totalTaxCollected, ledger, accepted>>

NextReenter ==
    \/ Idle /\ Tick
    \/ \E c \in AdminCallers, a \in AmountChoices :
            Idle /\ DepositTreasury(c, a)
    \/ \E c \in AdminCallers, a \in SponsorChoices :
            Idle /\ DepositSponsorshipPool(c, a)
    \/ \E c \in AdminCallers, e \in EmployeeChoices, r \in RateChoices,
          x \in TaxChoices : Idle /\ CreateStream(MaxStreams, c, e, r, x)
    \/ \E c \in AdminCallers, id \in StreamIds, a \in BonusChoices,
          t \in ReleaseTimes : Idle /\ ScheduleBonus(c, id, a, t)
    \/ \E c \in WithdrawCallers, id \in StreamIds : EnterWithdraw(c, id)
    \/ \E c \in WithdrawCallers, id \in StreamIds, n \in Nonces,
          d \in Deadlines, f \in FeeChoices :
            \E sig \in SignaturesFor(id, n, d) :
                EnterWithdrawSigned(c, id, n, d, f, sig)
    \/ VaultPull
    \/ TaxTransfer
    \/ EmployeeTransfer
    \/ FeeTransfer

SpecReenter == InitReenter /\ [][NextReenter]_vars

\* ------------------------------------------------------------------- claims

\* every withdrawSigned call the model submits, on created and on unknown ids
SignedCalls ==
    UNION {{[caller |-> c, streamId |-> id, nonce |-> n, deadline |-> d,
             relayerFee |-> f, signature |-> sig] :
                c \in WithdrawCallers, f \in FeeChoices,
                sig \in SignaturesFor(id, n, d)} :
           id \in PairIds, n \in Nonces, d \in Deadlines}

signedResult(call) ==
    withdrawSigned(call.caller, call.streamId, call.nonce, call.deadline,
                   call.relayerFee, call.signature)

employeeOf(streamId) == StreamAt(streams, streamId).employee

\* the signature is the stream's employee's, over the call's own payload
Genuine(call) ==
    /\ call.signature.signer = employeeOf(call.streamId)
    /\ call.signature.payload =
            Payload(call.streamId, call.nonce, call.deadline)

\* the call, resubmitted with a deadline that has not passed and the
\* employee's signature over it
Resigned(call, deadline) ==
    [call EXCEPT !.deadline = deadline,
                 !.signature = Signature(employeeOf(call.streamId),
                                   Payload(call.streamId, call.nonce, deadline))]

\* the result leaves every contract's storage and every balance as it is
NoEffect(r) ==
    /\ r.streams = streams
    /\ r.yieldVault = yieldVault
    /\ r.balances = balances
    /\ r.nonces = nonces
    /\ r.sponsorshipPool = sponsorshipPool

\* C1 as stated: once (E, N) has been accepted, every withdrawSigned carrying
\* nonce N for a stream of employee E fails with InvalidNonce.
C1_ReplayAlwaysInvalidNonce ==
    \A call \in SignedCalls :
        <<employeeOf(call.streamId), call.nonce>> \in accepted
            => signedResult(call).err = "InvalidNonce"

\* C1 as amended: once (E, N) has been accepted, every withdrawSigned carrying
\* nonce N for a stream of employee E fails and changes nothing: with
\* InvalidNonce when its deadline has not passed, with SignatureExpired when it
\* has.  So each (employee, nonce) pair is accepted at most once.
C1_ReplayRejected ==
    \A call \in SignedCalls :
        <<employeeOf(call.streamId), call.nonce>> \in accepted
            => /\ signedResult(call).err =
                    IF now > call.deadline THEN "SignatureExpired"
                    ELSE "InvalidNonce"
               /\ NoEffect(signedResult(call))

\* an employee with two streams had nonce 0 accepted on the stream withdrawn
\* last; a genuine, unexpired signature carrying nonce 0 for the other stream,
\* which has salary to pay, is rejected
C1_Witness ==
    /\ last.op = "withdrawSigned"
    /\ \E call \in SignedCalls :
        /\ call.streamId \in DOMAIN streams
        /\ call.streamId # last.streamId
        /\ employeeOf(call.streamId) = employeeOf(last.streamId)
        /\ <<employeeOf(call.streamId), call.nonce>> \in accepted
        /\ Genuine(call)
        /\ now <= call.deadline
        /\ withdraw(call.caller, call.streamId).err = "ok"
        /\ signedResult(call).err = "InvalidNonce"

\* C2: withdrawSigned succeeds only with the employee's signature over exactly
\* (streamId, nonce, deadline); any other signature, when the deadline and
\* nonce checks pass, fails with InvalidSignature and pays nothing.
C2_SignatureBinding ==
    \A call \in SignedCalls :
        /\ signedResult(call).err = "ok" => Genuine(call)
        /\ (/\ ~Genuine(call)
            /\ now <= call.deadline
            /\ call.nonce = nonces[employeeOf(call.streamId)])
                => /\ signedResult(call).err = "InvalidSignature"
                   /\ NoEffect(signedResult(call))

\* the employee's signature over another payload is rejected where the same
\* call with the signature over its own payload would be paid
C2_Witness ==
    \E call \in SignedCalls :
        /\ call.signature.signer = employeeOf(call.streamId)
        /\ ~Genuine(call)
        /\ signedResult(call).err = "InvalidSignature"
        /\ signedResult(Resigned(call, call.deadline)).err = "ok"

\* C3: a withdrawSigned with deadline < now fails with SignatureExpired and
\* changes nothing, whatever else it carries; one with now <= deadline is
\* never rejected for expiry.
C3_DeadlineEnforced ==
    \A call \in SignedCalls :
        /\ call.deadline < now
                => /\ signedResult(call).err = "SignatureExpired"
                   /\ NoEffect(signedResult(call))
        /\ now <= call.deadline
                => signedResult(call).err # "SignatureExpired"

\* a genuine call is rejected for its deadline alone: resubmitted with
\* deadline = now it is paid
C3_Witness ==
    \E call \in SignedCalls :
        /\ Genuine(call)
        /\ call.deadline < now
        /\ signedResult(call).err = "SignatureExpired"
        /\ signedResult(Resigned(call, now)).err = "ok"

\* the step is a withdrawSigned that went through
SignedStep ==
    \/ accepted' # accepted
    \/ last' # last /\ last'.op = "withdrawSigned"

WithdrawalsOf(streamId) ==
    {[caller |-> c, fee |-> 0, result |-> withdraw(c, streamId)] :
        c \in WithdrawCallers}
    \cup {[caller |-> call.caller, fee |-> call.relayerFee,
           result |-> signedResult(call)] :
            call \in {k \in SignedCalls : k.streamId = streamId}}

\* the withdrawal w of stream id pays what C5 says
PaysByTheFormula(id, w) ==
    LET s == streams[id]
        accrued == s.ratePerSecond * (now - s.lastCheckpoint)
        bonus == IF s.bonusAmount > 0 /\ now >= s.bonusReleaseTime
                    /\ ~s.bonusClaimed
                 THEN s.bonusAmount ELSE 0
        gross == accrued + bonus
        tax == (accrued * s.taxBps) \div BPS_DENOMINATOR
        net == gross - tax
        received(a) == w.result.balances[a] - balances[a]
    IN /\ net + tax = gross
       /\ net >= bonus
       /\ bonus = 0 => tax = (gross * s.taxBps) \div BPS_DENOMINATOR
       /\ w.result.accrued = accrued /\ w.result.bonus = bonus
       /\ w.result.tax = tax /\ w.result.net = net
       /\ received(taxVault) = tax
       /\ received(s.employee) =
            net + (IF w.caller = s.employee THEN w.fee ELSE 0)

\* C5: every successful withdrawal, direct or signed, pays the tax vault
\* floor(accrued * taxBps / 10000) and the employee accrued + bonus - tax (the
\* relayer fee comes on top when the employee relays the call): the bonus is
\* not taxed, and net + tax = gross.
C5_TaxInvariant ==
    \A id \in DOMAIN streams : \A w \in WithdrawalsOf(id) :
        w.result.err = "ok" => PaysByTheFormula(id, w)

\* a withdrawal paid a bonus of 5 untaxed and 3 of salary taxed at 50 %,
\* rounded down to 1
C5_Witness ==
    /\ last.op \in {"withdraw", "withdrawSigned"}
    /\ last.accrued = 3 /\ last.bonus = 5 /\ last.tax = 1 /\ last.net = 7
    /\ balances[employeeOf(last.streamId)] >= 7
    /\ balances[taxVault] >= 1

\* C6: for an active, unpaused stream accruedSalary at t is exactly
\* ratePerSecond * (t - lastCheckpoint), and while no operation moves the
\* checkpoint it grows with t by ratePerSecond per unit of time.
C6_AccrualLinear ==
    [][\A id \in DOMAIN streams :
        (streams[id].active /\ ~streams[id].paused)
            => /\ accruedSalary(streams, id, now) =
                    streams[id].ratePerSecond
                        * (now - streams[id].lastCheckpoint)
               /\ (/\ streams'[id].lastCheckpoint = streams[id].lastCheckpoint
                   /\ streams'[id].active /\ ~streams'[id].paused)
                    => /\ accruedSalary(streams', id, now') >=
                            accruedSalary(streams, id, now)
                       /\ accruedSalary(streams', id, now') =
                            accruedSalary(streams, id, now)
                                + streams[id].ratePerSecond * (now' - now)]_vars

\* a stream at rate 3 has accrued 6 over two units of time
C6_Witness ==
    \E id \in DOMAIN streams :
        /\ streams[id].active /\ ~streams[id].paused
        /\ now - streams[id].lastCheckpoint = 2
        /\ accruedSalary(streams, id, now) = 6

\* C7: a successful withdrawal at t leaves lastCheckpoint = t and
\* accruedSalary = 0 at t, and a second withdrawal at t fails with
\* NothingToWithdraw.
C7_Settlement ==
    \A id \in DOMAIN streams : \A w \in WithdrawalsOf(id) :
        w.result.err = "ok"
            => /\ w.result.streams[id].lastCheckpoint = now
               /\ accruedSalary(w.result.streams, id, now) = 0
               /\ executeWithdraw(w.result.streams, w.result.yieldVault,
                                  w.result.balances, vaultOwner, id, now).err
                    = "NothingToWithdraw"

\* right after a withdrawal that paid salary and a bonus, with the vault
\* still funded, the stream has nothing to withdraw
C7_Witness ==
    /\ last.op = "withdraw" /\ last.time = now
    /\ last.accrued > 0 /\ last.bonus > 0
    /\ streams[last.streamId].lastCheckpoint = now
    /\ accruedSalary(streams, last.streamId, now) = 0
    /\ balances[vault] > 0
    /\ withdraw(employee, last.streamId).err = "NothingToWithdraw"

\* C8 as stated: pausing loses no salary, so a withdrawal pays the salary of
\* all the time the stream was active and unpaused since it was last paid:
\* ratePerSecond * ((p - c) + (t - r)) after a pause at p and a resume at r.
C8_PauseLosesNothing ==
    \A id \in DOMAIN streams : \A w \in WithdrawalsOf(id) :
        w.result.err = "ok"
            => w.result.accrued = streams[id].ratePerSecond * ledger[id].unpaid

\* C9: resumeStream sets lastCheckpoint to the resume time r, and the first
\* withdrawal after it, at t, pays ratePerSecond * (t - r) of salary: nothing
\* for the paused interval, and never more than the active time earned.
C9_PausedTimeNeverAccrues ==
    \A id \in DOMAIN streams :
        /\ resumeStream(owner, id).err = "ok"
            => /\ resumeStream(owner, id).streams[id].lastCheckpoint = now
               /\ ~resumeStream(owner, id).streams[id].paused
        /\ \A w \in WithdrawalsOf(id) :
            w.result.err = "ok"
                => /\ w.result.accrued
                        <= streams[id].ratePerSecond * ledger[id].unpaid
                   /\ ledger[id].resumedAt # NoTime
                        => w.result.accrued = streams[id].ratePerSecond
                                * (now - ledger[id].resumedAt)

\* a stream created at 0 was paused from 0 to 1 and is withdrawn at 2 for the
\* one unit of time since the resume
C9_Witness ==
    /\ now = 2
    /\ \E id \in DOMAIN streams :
        /\ ledger[id].resumedAt = 1
        /\ ledger[id].unpaid = 1
        /\ withdraw(employee, id).err = "ok"
        /\ withdraw(employee, id).accrued = streams[id].ratePerSecond

\* the deadline, nonce and signature checks of the call pass
PassesChecks(call) ==
    /\ now <= call.deadline
    /\ call.nonce = nonces[employeeOf(call.streamId)]
    /\ Genuine(call)

\* every lifecycle call and direct withdrawal on id fails with StreamInactive
RejectsAsInactive(id) ==
    /\ \A c \in WithdrawCallers : withdraw(c, id).err = "StreamInactive"
    /\ pauseStream(owner, id).err = "StreamInactive"
    /\ resumeStream(owner, id).err = "StreamInactive"
    /\ cancelStream(owner, id).err = "StreamInactive"
    /\ \A a \in BonusChoices, t \in ReleaseTimes :
            scheduleBonus(owner, id, a, t).err = "StreamInactive"

\* C10 as stated: on a cancelled stream every later withdraw, withdrawSigned,
\* pauseStream, resumeStream, cancelStream and scheduleBonus fails with
\* StreamInactive.
C10_AllFailStreamInactive ==
    \A id \in DOMAIN streams :
        ~streams[id].active
            => /\ RejectsAsInactive(id)
               /\ \A call \in SignedCalls :
                    call.streamId = id
                        => signedResult(call).err = "StreamInactive"

\* C10 as amended: cancelStream succeeds on an active stream, paused or not;
\* a cancelled stream stays cancelled; withdraw, pauseStream, resumeStream,
\* cancelStream and scheduleBonus on it fail with StreamInactive, and
\* withdrawSigned on it fails too, with StreamInactive when its deadline,
\* nonce and signature checks pass; a caller who is not the owner is rejected
\* as well; nothing is paid.
C10_CancelTerminal ==
    [][\A id \in DOMAIN streams :
        /\ streams[id].active
            => /\ cancelStream(owner, id).err = "ok"
               /\ ~cancelStream(owner, id).streams[id].active
        /\ ~streams[id].active
            => /\ ~streams'[id].active
               /\ RejectsAsInactive(id)
               /\ \A c \in AdminCallers :
                    /\ pauseStream(c, id).err # "ok"
                    /\ resumeStream(c, id).err # "ok"
                    /\ cancelStream(c, id).err # "ok"
                    /\ \A a \in BonusChoices, t \in ReleaseTimes :
                            scheduleBonus(c, id, a, t).err # "ok"
               /\ \A call \in SignedCalls :
                    call.streamId = id
                        => /\ signedResult(call).err # "ok"
                           /\ NoEffect(signedResult(call))
                           /\ PassesChecks(call)
                                => signedResult(call).err = "StreamInactive"]_vars

\* a stream cancelled while paused, with salary accrued before the pause and
\* a released bonus unclaimed, rejects its employee's genuine signed call
C10_Witness ==
    \E id \in DOMAIN streams :
        /\ ~streams[id].active /\ streams[id].paused
        /\ streams[id].bonusAmount > 0 /\ ~streams[id].bonusClaimed
        /\ now >= streams[id].bonusReleaseTime
        /\ ledger[id].unpaid > 0
        /\ balances[vault] > 0
        /\ \E call \in SignedCalls :
            /\ call.streamId = id /\ PassesChecks(call)
            /\ signedResult(call).err = "StreamInactive"

\* the direct withdrawal result leaves storage and balances as they are
NothingMoved(r) ==
    /\ r.streams = streams
    /\ r.yieldVault = yieldVault
    /\ r.balances = balances

\* C11: while a stream is active and paused, withdraw and a correctly signed
\* withdrawSigned fail with AlreadyPaused and pay nothing, and pauseStream
\* fails with AlreadyPaused; resumeStream on an unpaused active stream fails
\* with NotPaused; each leaves the stream and the employee's nonce unchanged.
C11_PausedStreamRejects ==
    \A id \in DOMAIN streams :
        /\ (streams[id].active /\ streams[id].paused)
            => /\ \A c \in WithdrawCallers :
                    /\ withdraw(c, id).err = "AlreadyPaused"
                    /\ NothingMoved(withdraw(c, id))
               /\ \A call \in SignedCalls :
                    (call.streamId = id /\ PassesChecks(call))
                        => /\ signedResult(call).err = "AlreadyPaused"
                           /\ NoEffect(signedResult(call))
               /\ pauseStream(owner, id).err = "AlreadyPaused"
               /\ pauseStream(owner, id).streams = streams
        /\ (streams[id].active /\ ~streams[id].paused)
            => /\ resumeStream(owner, id).err = "NotPaused"
               /\ resumeStream(owner, id).streams = streams

\* a paused stream with a released bonus unclaimed and a funded vault, at a
\* time after the pause, rejects its employee's genuine signed call
C11_Witness ==
    \E id \in DOMAIN streams :
        /\ streams[id].active /\ streams[id].paused
        /\ now > streams[id].lastCheckpoint
        /\ bonusClaimable(streams[id], now)
        /\ balances[vault] > 0
        /\ withdraw(employee, id).err = "AlreadyPaused"
        /\ pauseStream(owner, id).err = "AlreadyPaused"
        /\ \E call \in SignedCalls :
            /\ call.streamId = id /\ PassesChecks(call)
            /\ signedResult(call).err = "AlreadyPaused"

\* the bonus condition of C12, on the stream as it is before the withdrawal
BonusDue(id) ==
    /\ streams[id].bonusAmount > 0
    /\ now >= streams[id].bonusReleaseTime
    /\ streams[id].bonusClaimed = FALSE

\* C12: a successful withdrawal pays the bonus iff bonusAmount > 0, now >=
\* bonusReleaseTime and bonusClaimed is false, and then sets bonusClaimed, after
\* which no withdrawal at any later time pays it again; a withdrawal before the
\* release time pays salary only and leaves the bonus pending.  bonusClaimed is
\* cleared only by scheduling a new bonus, released in the future.
C12_BonusSettlement ==
    [][\A id \in DOMAIN streams :
        /\ \A w \in WithdrawalsOf(id) :
            w.result.err = "ok"
                => LET after == w.result.streams[id] IN
                   /\ BonusDue(id)
                        => /\ w.result.bonus = streams[id].bonusAmount
                           /\ after.bonusClaimed
                           /\ \A t \in now..(MaxTime + 1) :
                                ~bonusClaimable(after, t)
                   /\ ~BonusDue(id)
                        => /\ w.result.bonus = 0
                           /\ after.bonusClaimed = streams[id].bonusClaimed
                   /\ after.bonusAmount = streams[id].bonusAmount
                   /\ after.bonusReleaseTime = streams[id].bonusReleaseTime
        /\ (streams[id].bonusClaimed /\ ~streams'[id].bonusClaimed)
            => /\ streams'[id].bonusReleaseTime > now
               /\ streams'[id].bonusAmount > 0]_vars

\* a withdrawal before the release time paid salary only: the bonus is still
\* pending
C12_Witness ==
    /\ last.op \in {"withdraw", "withdrawSigned"}
    /\ last.time = now /\ last.accrued > 0 /\ last.bonus = 0
    /\ streams[last.streamId].bonusAmount > 0
    /\ ~streams[last.streamId].bonusClaimed
    /\ now < streams[last.streamId].bonusReleaseTime

\* what account a holds more after the call than before it
Gain(r, a) == r.balances[a] - balances[a]

\* C13: a successful withdrawSigned with any relayerFee pays the employee the
\* net and the tax vault the tax that a direct withdraw in the same state
\* pays; the fee goes to the caller on top, out of the manager's holdings, and
\* sponsorshipPool decreases by exactly relayerFee.
C13_FeeNotFromEarnings ==
    \A call \in SignedCalls :
        LET r == signedResult(call)
            d == withdraw(call.caller, call.streamId)
            emp == employeeOf(call.streamId)
            fee == call.relayerFee
        IN r.err = "ok"
            => /\ d.err = "ok"
               /\ r.net = d.net /\ r.tax = d.tax
               /\ r.accrued = d.accrued /\ r.bonus = d.bonus
               /\ Gain(r, taxVault) = Gain(d, taxVault)
               /\ Gain(r, emp) =
                    Gain(d, emp) + (IF call.caller = emp THEN fee ELSE 0)
               /\ call.caller # emp => Gain(r, call.caller) = fee
               /\ Gain(r, manager) = Gain(d, manager) - fee
               /\ r.sponsorshipPool = sponsorshipPool - fee
               /\ r.streams = d.streams /\ r.yieldVault = d.yieldVault

\* the relayer was paid a fee out of the pool for a withdrawal whose salary
\* and bonus reached the employee in full
C13_Witness ==
    /\ last.op = "withdrawSigned" /\ last.fee > 0
    /\ last.accrued = 3 /\ last.bonus = 5 /\ last.net = 7
    /\ balances[relayer] = last.fee
    /\ balances[employeeOf(last.streamId)] = last.net
    /\ sponsorshipPool = 0

\* C14: an otherwise valid withdrawSigned with relayerFee > sponsorshipPool
\* fails with InsufficientSponsorship and is undone as a whole: nonce, stream,
\* vault accounting, pool and every balance are as before, so the same call
\* with a fee the pool covers still goes through.
C14_InsufficientSponsorship ==
    \A call \in SignedCalls :
        (/\ PassesChecks(call)
         /\ withdraw(call.caller, call.streamId).err = "ok"
         /\ call.relayerFee > sponsorshipPool)
            => /\ signedResult(call).err = "InsufficientSponsorship"
               /\ NoEffect(signedResult(call))
               /\ signedResult([call EXCEPT !.relayerFee = 0]).err = "ok"

\* with an empty pool a genuine call asking for a fee is refused, where a
\* direct withdrawal would pay salary and a released bonus
C14_Witness ==
    \E call \in SignedCalls :
        /\ PassesChecks(call)
        /\ call.relayerFee > sponsorshipPool
        /\ withdraw(call.caller, call.streamId).err = "ok"
        /\ withdraw(call.caller, call.streamId).accrued > 0
        /\ withdraw(call.caller, call.streamId).bonus > 0
        /\ signedResult(call).err = "InsufficientSponsorship"

\* every failing call of the administrative operations changes nothing
AdminFailuresChangeNothing ==
    \A c \in AdminCallers :
        /\ \A a \in AmountChoices :
            LET r == depositTreasury(c, a) IN
            r.err # "ok" => /\ r.yieldVault = yieldVault
                            /\ r.balances = balances
                            /\ r.sponsorshipPool = sponsorshipPool
        /\ \A a \in SponsorChoices :
            LET r == depositSponsorshipPool(c, a) IN
            r.err # "ok" => /\ r.yieldVault = yieldVault
                            /\ r.balances = balances
                            /\ r.sponsorshipPool = sponsorshipPool
        /\ \A e \in EmployeeChoices, rate \in RateChoices, x \in TaxChoices :
            LET r == createStream(c, e, rate, x) IN
            r.err # "ok" => r.streams = streams /\ r.nextStreamId = nextStreamId
        /\ \A inputs \in BatchChoices :
            LET r == batchCreateStreams(c, inputs) IN
            r.err # "ok" => r.streams = streams /\ r.nextStreamId = nextStreamId
        /\ \A id \in PairIds :
            /\ pauseStream(c, id).err # "ok" => pauseStream(c, id).streams = streams
            /\ resumeStream(c, id).err # "ok"
                    => resumeStream(c, id).streams = streams
            /\ cancelStream(c, id).err # "ok"
                    => cancelStream(c, id).streams = streams
            /\ \A a \in BonusChoices, t \in ReleaseTimes :
                scheduleBonus(c, id, a, t).err # "ok"
                    => scheduleBonus(c, id, a, t).streams = streams

\* every failing withdrawal, direct or signed, changes nothing
WithdrawFailuresChangeNothing ==
    /\ \A c \in WithdrawCallers, id \in PairIds :
            withdraw(c, id).err # "ok" => NothingMoved(withdraw(c, id))
    /\ \A call \in SignedCalls :
            signedResult(call).err # "ok" => NoEffect(signedResult(call))

\* C15: every operation that fails leaves all state unchanged; a withdrawal
\* refused with InsufficientBalance leaves the salary and the bonus it would
\* have paid withdrawable: once the treasury is funded the same withdrawal
\* pays them.
C15_AllOrNothing ==
    /\ AdminFailuresChangeNothing
    /\ WithdrawFailuresChangeNothing
    /\ \A id \in DOMAIN streams, c \in WithdrawCallers :
        withdraw(c, id).err = "InsufficientBalance"
            => LET d == depositTreasury(owner, 40)
                   w == executeWithdraw(streams, d.yieldVault, d.balances,
                                        vaultOwner, id, now)
               IN /\ d.err = "ok"
                  /\ w.err = "ok"
                  /\ w.accrued = streams[id].ratePerSecond
                                    * (now - streams[id].lastCheckpoint)
                  /\ w.bonus = IF BonusDue(id) THEN streams[id].bonusAmount
                               ELSE 0

\* with the vault empty a withdrawal of accrued salary and a released bonus
\* is refused with InsufficientBalance
C15_Witness ==
    \E id \in DOMAIN streams :
        /\ withdraw(employee, id).err = "InsufficientBalance"
        /\ now > streams[id].lastCheckpoint
        /\ BonusDue(id)
        /\ balances[vault] = 0

\* the error _validateStreamParams raises for the input, per C16
ExpectedCreateError(emp, rate, taxBps) ==
    IF emp = ZeroAddress THEN "ZeroAddress"
    ELSE IF rate = 0 \/ rate > MAX_RATE THEN "InvalidRate"
    ELSE IF taxBps > 10000 THEN "InvalidTaxBps"
    ELSE "ok"

\* C16: createStream by the owner fails with ZeroAddress for the null
\* employee, else with InvalidRate for rate = 0 or rate > MAX_RATE, else with
\* InvalidTaxBps for taxBps > 10000, creating nothing; it succeeds for every
\* other input, rate = MAX_RATE and taxBps = 10000 included.  Every stored
\* stream has 0 < ratePerSecond <= MAX_RATE and taxBps <= 10000.
C16_CreateValidation ==
    /\ \A e \in EmployeeChoices, rate \in RateProbes, x \in TaxProbes :
        LET r == createStream(owner, e, rate, x) IN
        /\ r.err = ExpectedCreateError(e, rate, x)
        /\ r.err # "ok"
            => r.streams = streams /\ r.nextStreamId = nextStreamId
        /\ r.err = "ok"
            => /\ nextStreamId \in DOMAIN r.streams
               /\ r.streams[nextStreamId].ratePerSecond = rate
               /\ r.streams[nextStreamId].taxBps = x
               /\ r.streams[nextStreamId].employee = e
    /\ \A id \in DOMAIN streams :
        /\ 0 < streams[id].ratePerSecond
        /\ streams[id].ratePerSecond <= MAX_RATE
        /\ streams[id].taxBps <= 10000
        /\ streams[id].employee # ZeroAddress

\* a stream at the largest rate and the largest tax rate is stored
C16_Witness ==
    \E id \in DOMAIN streams :
        /\ streams[id].ratePerSecond = MAX_RATE
        /\ streams[id].taxBps = 10000
        /\ createStream(owner, employee, MAX_RATE + 1, 10000).err = "InvalidRate"
        /\ createStream(owner, employee, MAX_RATE, 10001).err = "InvalidTaxBps"

\* the stream that C17 says a creation at time t stores
FreshStream(emp, rate, taxBps, t) ==
    [employee |-> emp, ratePerSecond |-> rate, lastCheckpoint |-> t,
     taxBps |-> taxBps, active |-> TRUE, paused |-> FALSE, bonusAmount |-> 0,
     bonusReleaseTime |-> 0, bonusClaimed |-> FALSE]

\* the creation result r keeps the existing streams and adds ids up to n more
Appends(r, n) ==
    /\ r.nextStreamId = nextStreamId + n
    /\ DOMAIN r.streams = 0..(nextStreamId + n - 1)
    /\ \A i \in DOMAIN streams : r.streams[i] = streams[i]

\* C17: the streams created so far are those of ids 0..nextStreamId-1, from
\* nextStreamId = 0 on; a successful createStream stores the new stream under
\* the previous nextStreamId with lastCheckpoint = now, active, not paused and
\* no bonus, and raises nextStreamId by 1; a successful batch of n entries
\* stores them under n consecutive ids in input order and raises it by n.
C17_SequentialIds ==
    /\ DOMAIN streams = 0..(nextStreamId - 1)
    /\ \A e \in EmployeeChoices, rate \in RateProbes, x \in TaxProbes :
        LET r == createStream(owner, e, rate, x) IN
        r.err = "ok"
            => /\ Appends(r, 1)
               /\ r.streams[nextStreamId] = FreshStream(e, rate, x, now)
    /\ \A inputs \in BatchProbes :
        LET r == batchCreateStreams(owner, inputs) IN
        r.err = "ok"
            => /\ Appends(r, Len(inputs))
               /\ \A k \in 1..Len(inputs) :
                    r.streams[nextStreamId + k - 1] =
                        FreshStream(inputs[k].employee, inputs[k].ratePerSecond,
                                    inputs[k].taxBps, now)

\* two streams were created by separate calls, at times 0 and 1, under ids 0
\* and 1
C17_Witness ==
    /\ nextStreamId = 2
    /\ streams[0].lastCheckpoint = 0 /\ streams[1].lastCheckpoint = 1
    /\ streams[0].employee = employee /\ streams[1].employee = other
    /\ streams[1].active /\ ~streams[1].paused /\ streams[1].bonusAmount = 0

\* every entry of the list passes _validateStreamParams
AllValid(inputs) ==
    \A k \in 1..Len(inputs) :
        ExpectedCreateError(inputs[k].employee, inputs[k].ratePerSecond,
                            inputs[k].taxBps) = "ok"

\* C18: batchCreateStreams by the owner fails with InvalidBatchSize, creating
\* nothing, exactly for the empty list and for lists of more than 200 entries
\* (201 included); a list of 200 valid entries succeeds, and all streams of
\* one batch get the same lastCheckpoint.
C18_BatchSize ==
    /\ batchCreateStreams(owner, <<>>).err = "InvalidBatchSize"
    /\ batchCreateStreams(owner, BatchOf(201)).err = "InvalidBatchSize"
    /\ batchCreateStreams(owner, BatchOf(200)).err = "ok"
    /\ batchCreateStreams(owner, BatchOf(200)).nextStreamId = nextStreamId + 200
    /\ \A inputs \in BatchProbes :
        LET r == batchCreateStreams(owner, inputs) IN
        /\ r.err = "InvalidBatchSize"
            <=> (Len(inputs) = 0 \/ Len(inputs) > 200)
        /\ r.err = "InvalidBatchSize"
            => r.streams = streams /\ r.nextStreamId = nextStreamId
        /\ (Len(inputs) \in 1..200 /\ AllValid(inputs)) => r.err = "ok"
        /\ r.err = "ok"
            => \A i \in DOMAIN r.streams \ DOMAIN streams :
                    r.streams[i].lastCheckpoint = now

\* a batch of 200 entries went through at time 1: 200 streams with the same
\* checkpoint exist, and one more entry would have been refused
C18_Witness ==
    /\ nextStreamId = 200
    /\ \A i \in 0..199 :
        i \in DOMAIN streams /\ streams[i].lastCheckpoint = 1
    /\ batchCreateStreams(owner, BatchOf(201)).err = "InvalidBatchSize"

\* the positions of the entries that fail validation
BadEntries(inputs) ==
    {k \in 1..Len(inputs) :
        ExpectedCreateError(inputs[k].employee, inputs[k].ratePerSecond,
                            inputs[k].taxBps) # "ok"}

\* the lists C19 is checked on: the probes, and a list of 200 entries whose
\* last one fails validation
AtomicityProbes ==
    BatchProbes \cup {Append(BatchOf(199), StreamInput(other, 0, 5000))}

\* C19: a batch of accepted length with an entry that fails validation, at
\* whatever position, fails as a whole with that entry's error (the first
\* such entry's): no stream of the batch exists afterwards, the valid entries
\* before it included, and nextStreamId is unchanged.
C19_BatchAtomic ==
    \A inputs \in AtomicityProbes :
        LET r == batchCreateStreams(owner, inputs)
            bad == BadEntries(inputs)
            first == CHOOSE k \in bad : \A m \in bad : k <= m
        IN (Len(inputs) \in 1..200 /\ bad # {})
            => /\ r.err = ExpectedCreateError(inputs[first].employee,
                                              inputs[first].ratePerSecond,
                                              inputs[first].taxBps)
               /\ r.streams = streams
               /\ r.nextStreamId = nextStreamId

\* with one stream in place, a list whose second entry is invalid is refused
\* while its first entry alone would be created
C19_Witness ==
    /\ nextStreamId = 1
    /\ batchCreateStreams(owner,
            <<StreamInput(employee, 3, 5000), StreamInput(other, 0, 5000)>>).err
                = "InvalidRate"
    /\ batchCreateStreams(owner, <<StreamInput(employee, 3, 5000)>>).err = "ok"

\* bonus amounts and release times around the limits of scheduleBonus
BonusProbes == {0, 5, 7}
ReleaseProbes == {t \in {now - 1, now, now + 1} : t >= 0}

\* C20: scheduleBonus by the owner succeeds exactly when the stream is active
\* (paused or not), amount > 0 and releaseTime > now; a cancelled or
\* never-created stream gives StreamInactive, else amount 0 gives ZeroAmount,
\* else releaseTime <= now gives ReleaseInPast.  On success bonusAmount and
\* bonusReleaseTime are replaced and bonusClaimed is reset, so only the new
\* bonus is ever paid, from its release time on, and the one it replaced is
\* not.
C20_ScheduleBonus ==
    \A id \in PairIds, a \in BonusProbes, t \in ReleaseProbes :
        LET s == StreamAt(streams, id)
            r == scheduleBonus(owner, id, a, t)
        IN /\ r.err = "ok" <=> (s.active /\ a > 0 /\ t > now)
           /\ ~s.active => r.err = "StreamInactive"
           /\ (s.active /\ a = 0) => r.err = "ZeroAmount"
           /\ (s.active /\ a > 0 /\ t <= now) => r.err = "ReleaseInPast"
           /\ r.err # "ok" => r.streams = streams
           /\ r.err = "ok"
                => /\ r.streams = [streams EXCEPT ![id] =
                        [s EXCEPT !.bonusAmount = a, !.bonusReleaseTime = t,
                                  !.bonusClaimed = FALSE]]
                   /\ \A u \in now..(MaxTime + 1) :
                        LET w == executeWithdraw(r.streams, yieldVault,
                                                 balances, vaultOwner, id, u)
                        IN w.err = "ok"
                            => w.bonus = IF u >= t THEN a ELSE 0

\* a bonus was paid and a new one scheduled after it: the stream holds one
\* pending bonus, which a further schedule on the stream would replace
C20_Witness ==
    /\ last.op \in {"withdraw", "withdrawSigned"} /\ last.bonus > 0
    /\ LET s == StreamAt(streams, last.streamId) IN
        /\ s.active
        /\ s.bonusAmount > 0 /\ ~s.bonusClaimed /\ s.bonusReleaseTime > now
        /\ scheduleBonus(owner, last.streamId, 7, now + 1).err = "ok"
        /\ scheduleBonus(owner, last.streamId, 7, now).err = "ReleaseInPast"

\* the vault's books after _simulateYield at the current time
Accrued == simulateYield(yieldVault, now)

\* what the books hold after the accrual
Available == Accrued.totalPrincipal + Accrued.accumulatedYield

\* C21 as stated: YieldVault.withdraw(amount, to) by the vault's owner, after
\* the accrual, fails with InsufficientBalance and changes nothing if amount >
\* totalPrincipal + accumulatedYield; otherwise it consumes accumulatedYield
\* first and totalPrincipal for the rest, so that their sum falls by exactly
\* amount and neither goes negative.
C21_VaultWithdraw ==
    \A amount \in 1..(Available + 1) :
        LET r == vaultWithdraw(yieldVault, balances, vaultOwner, vaultOwner,
                               amount, owner, now)
            y == Accrued.accumulatedYield
        IN /\ amount > Available
                => /\ r.err = "InsufficientBalance"
                   /\ r.yieldVault = yieldVault /\ r.balances = balances
           /\ amount <= Available
                => /\ r.err = "ok"
                   /\ r.yieldVault.accumulatedYield =
                        IF amount <= y THEN y - amount ELSE 0
                   /\ r.yieldVault.totalPrincipal =
                        IF amount <= y THEN Accrued.totalPrincipal
                        ELSE Accrued.totalPrincipal - (amount - y)
                   /\ r.yieldVault.totalPrincipal
                        + r.yieldVault.accumulatedYield = Available - amount
                   /\ r.yieldVault.totalPrincipal >= 0
                   /\ r.yieldVault.accumulatedYield >= 0

\* the yield pending at the current time, by the formula of C22
PendingByFormula ==
    IF yieldVault.totalPrincipal = 0 \/ yieldVault.yieldRateBps = 0
        \/ now = yieldVault.lastUpdate
    THEN 0
    ELSE (yieldVault.totalPrincipal * yieldVault.yieldRateBps
            * (now - yieldVault.lastUpdate)) \div (10000 * SECONDS_PER_YEAR)

\* C22: currentBalance() = totalPrincipal + accumulatedYield + pendingYield(now)
\* at every time; it equals what the books hold for a withdraw at that time,
\* after its accrual (one unit more is refused with InsufficientBalance), and
\* an accrual at the same time leaves it unchanged.
C22_CurrentBalance ==
    /\ currentBalance(yieldVault, now) =
            yieldVault.totalPrincipal + yieldVault.accumulatedYield
                + PendingByFormula
    /\ currentBalance(yieldVault, now) = Available
    /\ currentBalance(Accrued, now) = currentBalance(yieldVault, now)
    /\ Accrued.lastUpdate = now
    /\ Accrued.totalPrincipal = yieldVault.totalPrincipal
    /\ vaultWithdraw(yieldVault, balances, vaultOwner, vaultOwner,
                     currentBalance(yieldVault, now) + 1, owner, now).err
            = "InsufficientBalance"

\* yield has been credited at an earlier accrual and more is pending since
C22_Witness ==
    /\ yieldVault.accumulatedYield > 0
    /\ pendingYield(yieldVault, now) > 0
    /\ yieldVault.lastUpdate < now
    /\ currentBalance(yieldVault, now) >
            yieldVault.totalPrincipal + yieldVault.accumulatedYield

\* C23: setYieldRate(bps) by the vault's owner fails with RateTooHigh when
\* bps > 10000, so the rate never exceeds 10000; otherwise it credits the yield
\* pending at the old rate, sets lastUpdate to now and only then switches the
\* rate, so that the time from now on earns at the new rate.
C23_SetYieldRate ==
    /\ yieldVault.yieldRateBps <= 10000
    /\ \A bps \in VaultYieldChoices :
        LET r == setYieldRate(vaultOwner, bps) IN
        /\ bps > 10000 => /\ r.err = "RateTooHigh"
                          /\ r.yieldVault = yieldVault
        /\ bps <= 10000 =>
              /\ r.err = "ok"
              /\ r.yieldVault.accumulatedYield =
                    yieldVault.accumulatedYield + PendingByFormula
              /\ r.yieldVault.lastUpdate = now
              /\ r.yieldVault.yieldRateBps = bps
              /\ r.yieldVault.totalPrincipal = yieldVault.totalPrincipal
              /\ pendingYield(r.yieldVault, now) = 0
              /\ pendingYield(r.yieldVault, now + 1) =
                    (yieldVault.totalPrincipal * bps)
                        \div (10000 * SECONDS_PER_YEAR)

\* the rate was switched to 0 after one time unit at 500 bps on a principal
\* of 40: the unit of yield was credited by the switch itself (no withdrawal
\* has taken tokens out, and the only deposit came before the yield)
C23_Witness ==
    /\ now > 0
    /\ yieldVault.lastUpdate = now
    /\ yieldVault.yieldRateBps = 0
    /\ yieldVault.accumulatedYield = 1
    /\ yieldVault.totalPrincipal = 40
    /\ balances[vault] = 40

\* C24: in the deployed configuration, where the YieldVault is owned by the
\* StreamManager, a setYieldRate(bps) call with bps <= 10000 made by the
\* administrator (the StreamManager's owner) succeeds and sets yieldRateBps.
C24_AdminSetsYieldRate ==
    vaultOwner = manager =>
        \A bps \in {0, 500, MAX_YIELD_BPS} :
            LET r == setYieldRate(owner, bps) IN
            /\ r.err = "ok"
            /\ r.yieldVault.yieldRateBps = bps

\* once the vault is handed over, no step changes its rate any more
C24_RateFrozenAfterHandOver ==
    [][vaultOwner = manager =>
         /\ vaultOwner' = manager
         /\ yieldVault'.yieldRateBps = yieldVault.yieldRateBps]_vars

\* every account other than the named owner
AllBut(anOwner) == Holders \ {anOwner}

\* C25: depositTreasury, depositSponsorshipPool, createStream,
\* batchCreateStreams, scheduleBonus, pauseStream, resumeStream and
\* cancelStream called by anyone but the StreamManager's owner fail and change
\* nothing; so do YieldVault deposit, withdraw and setYieldRate for a caller
\* other than the vault's owner, and TaxVault withdrawTax for a caller other
\* than the tax vault's owner.
C25_AdminOnly ==
    /\ \A c \in AllBut(owner) :
        /\ \A a \in AmountChoices \cup SponsorChoices :
            /\ depositTreasury(c, a) =
                  Deposited("NotOwner", yieldVault, balances, sponsorshipPool)
            /\ depositSponsorshipPool(c, a) =
                  Deposited("NotOwner", yieldVault, balances, sponsorshipPool)
        /\ \A e \in EmployeeChoices, rate \in RateChoices, x \in TaxChoices :
            createStream(c, e, rate, x) =
                Created("NotOwner", streams, nextStreamId)
        /\ \A inputs \in BatchChoices :
            batchCreateStreams(c, inputs) =
                Created("NotOwner", streams, nextStreamId)
        /\ \A id \in PairIds :
            /\ pauseStream(c, id) = Lifecycle("NotOwner", streams)
            /\ resumeStream(c, id) = Lifecycle("NotOwner", streams)
            /\ cancelStream(c, id) = Lifecycle("NotOwner", streams)
            /\ \A a \in BonusChoices, t \in ReleaseTimes :
                scheduleBonus(c, id, a, t) = Lifecycle("NotOwner", streams)
    /\ \A c \in AllBut(vaultOwner) :
        /\ \A a \in AmountChoices \cup VaultWithdrawChoices :
            /\ LET r == vaultDeposit(yieldVault, balances, vaultOwner, c, a, now)
               IN /\ r.err = "NotOwner"
                  /\ r.yieldVault = yieldVault
                  /\ r.balances = balances
            /\ \A to \in RecipientChoices \cup {c} :
               LET r == vaultWithdraw(yieldVault, balances, vaultOwner, c, a,
                                      to, now)
               IN /\ r.err = "NotOwner"
                  /\ r.yieldVault = yieldVault
                  /\ r.balances = balances
        /\ \A bps \in VaultYieldChoices :
            /\ setYieldRate(c, bps).err = "NotOwner"
            /\ setYieldRate(c, bps).yieldVault = yieldVault
    /\ \A c \in AllBut(taxVaultOwner) :
        \A to \in RecipientChoices \cup {c}, a \in TaxDepositChoices :
            withdrawTax(c, to, a) =
                Taxed("NotOwner", balances, totalTaxCollected)

\* a state in which each kind of call would go through for the rightful
\* owner: an active unpaused stream, a funded vault, tokens in the tax vault
C25_Witness ==
    \E id \in DOMAIN streams :
        /\ pauseStream(owner, id).err = "ok"
        /\ cancelStream(owner, id).err = "ok"
        /\ scheduleBonus(owner, id, 5, now + 1).err = "ok"
        /\ createStream(owner, employee, 3, 5000).err = "ok"
        /\ depositSponsorshipPool(owner, 1).err = "ok"
        /\ vaultWithdraw(yieldVault, balances, vaultOwner, vaultOwner, 1,
                         manager, now).err = "ok"
        /\ withdrawTax(taxVaultOwner, owner, 1).err = "ok"

\* amounts offered to depositTreasury: none, the owner's last token, the
\* standard funding
TreasuryProbes == {0, 1, 40}

\* C26: depositTreasury(0) fails with ZeroAmount; depositTreasury(amount > 0)
\* by the owner, who holds the tokens, moves exactly amount from the owner
\* through the StreamManager into the vault: totalPrincipal, treasuryBalance()
\* and the vault's token holding each grow by exactly amount at that moment,
\* and the StreamManager's own holding is unchanged.
C26_DepositTreasury ==
    \A amount \in TreasuryProbes :
        LET r == depositTreasury(owner, amount) IN
        /\ amount = 0 =>
              r = Deposited("ZeroAmount", yieldVault, balances, sponsorshipPool)
        /\ (amount > 0 /\ balances[owner] >= amount) =>
              /\ r.err = "ok"
              /\ r.yieldVault.totalPrincipal =
                    yieldVault.totalPrincipal + amount
              /\ currentBalance(r.yieldVault, now) =
                    currentBalance(yieldVault, now) + amount
              /\ r.balances[vault] = balances[vault] + amount
              /\ r.balances[manager] = balances[manager]
              /\ r.balances[owner] = balances[owner] - amount
              /\ \A h \in Holders \ {owner, vault} :
                    r.balances[h] = balances[h]
              /\ r.sponsorshipPool = sponsorshipPool

\* the treasury was funded with 40 and has yield pending since then, and the
\* owner's further deposit of 1 goes through
C26_Witness ==
    /\ yieldVault.totalPrincipal = 40
    /\ balances[vault] = 40
    /\ pendingYield(yieldVault, now) > 0
    /\ depositTreasury(owner, 1).err = "ok"

\* the tax routed to the TaxVault by one step: the tax part of a successful
\* stream withdrawal, or the amount of a depositTax
RoutedTax ==
    IF last' # last THEN last'.tax
    ELSE IF balances'[taxVault] > balances[taxVault]
        THEN balances'[taxVault] - balances[taxVault]
    ELSE 0

\* C27: totalTaxCollected is the sum of all tax routed to the TaxVault: every
\* successful stream withdrawal adds its tax part to it, every depositTax
\* adds its amount, and nothing else changes it.
C27_TaxTotal ==
    [][totalTaxCollected' = totalTaxCollected + RoutedTax]_vars

\* the part of the claim that holds: depositTax and nothing else moves the
\* counter, so it lags behind the tokens routed by stream withdrawals
C27_OnlyDepositTaxCounts ==
    [][totalTaxCollected' =
         IF last' = last /\ balances'[taxVault] > balances[taxVault]
         THEN totalTaxCollected + (balances'[taxVault] - balances[taxVault])
         ELSE totalTaxCollected]_vars

\* C28: for an active, unpaused stream with gross > 0 and a funded vault,
\* netWithdrawable(id) at time t is the net amount a withdraw(id) at t
\* transfers to the employee: accrued + claimable bonus
\* - floor(accrued * taxBps / 10000); with no claimable bonus it is
\* accruedSalary - floor(accruedSalary * taxBps / 10000).
C28_NetWithdrawable ==
    \A id \in DOMAIN streams :
        LET w == withdraw(streams[id].employee, id)
            quote == netWithdrawable(streams, id, now)
            salary == accruedSalary(streams, id, now)
        IN w.err = "ok" =>
            /\ quote = w.net
            /\ quote = Gain(w, streams[id].employee)
            /\ quote = w.accrued + w.bonus
                          - ((w.accrued * streams[id].taxBps) \div 10000)
            /\ ~BonusDue(id) =>
                  quote = salary - ((salary * streams[id].taxBps) \div 10000)
            /\ BonusDue(id) =>
                  quote = salary + streams[id].bonusAmount
                            - ((salary * streams[id].taxBps) \div 10000)

\* a withdrawal that would pay taxed salary and a released bonus
C28_Witness ==
    \E id \in DOMAIN streams :
        LET w == withdraw(streams[id].employee, id) IN
        /\ w.err = "ok"
        /\ BonusDue(id)
        /\ w.accrued > 0
        /\ w.tax > 0
        /\ netWithdrawable(streams, id, now) = w.net

\* employee, ratePerSecond and taxBps of the stream are the same in both
SameIdentity(s1, s2) ==
    /\ s1.employee = s2.employee
    /\ s1.ratePerSecond = s2.ratePerSecond
    /\ s1.taxBps = s2.taxBps

\* the values the administrator's scheduleBonus, pauseStream, resumeStream or
\* cancelStream on id, or a withdrawal on id, can give stream id now
StreamWrites(id) ==
    {pauseStream(owner, id).streams[id], resumeStream(owner, id).streams[id],
     cancelStream(owner, id).streams[id]}
    \cup {scheduleBonus(owner, id, a, t).streams[id] :
                a \in BonusChoices, t \in ReleaseTimes}
    \cup {withdraw(c, id).streams[id] : c \in WithdrawCallers}

\* the call writes no stream but the one it names, and on that one no
\* identity field
TouchesOnly(id, ss) ==
    /\ DOMAIN ss = DOMAIN streams
    /\ \A j \in DOMAIN streams :
        /\ SameIdentity(ss[j], streams[j])
        /\ j # id => ss[j] = streams[j]

\* the stream table as each call naming id would leave it, the signed
\* withdrawals carrying the employee's signature over their own payload
StreamsAfterCallOn(id) ==
    {pauseStream(owner, id).streams, resumeStream(owner, id).streams,
     cancelStream(owner, id).streams}
    \cup {scheduleBonus(owner, id, a, t).streams :
                a \in BonusChoices, t \in ReleaseTimes}
    \cup {withdraw(c, id).streams : c \in WithdrawCallers}
    \cup {withdrawSigned(c, id, n, d, f,
                         Signature(streams[id].employee,
                                   Payload(id, n, d))).streams :
                c \in WithdrawCallers, n \in Nonces, d \in Deadlines,
                f \in FeeChoices}

\* C29: streams are never deleted; employee, ratePerSecond and taxBps of an
\* existing stream never change; a stream changes only through the
\* administrator's scheduleBonus, pauseStream, resumeStream or cancelStream on
\* its id or a withdrawal on its id, and then no other stream changes.
C29_StreamFrame ==
    [][/\ DOMAIN streams \subseteq DOMAIN streams'
       /\ \A id \in DOMAIN streams :
            /\ SameIdentity(streams'[id], streams[id])
            /\ streams'[id] # streams[id] =>
                  /\ streams'[id] \in StreamWrites(id)
                  /\ DOMAIN streams' = DOMAIN streams
                  /\ \A j \in DOMAIN streams \ {id} :
                        streams'[j] = streams[j]
       /\ \A id \in DOMAIN streams :
            \A ss \in StreamsAfterCallOn(id) : TouchesOnly(id, ss)]_vars

\* two streams exist; the first has been paused, resumed, given a bonus and
\* paid that bonus, then cancelled, while the second is as it was created
C29_Witness ==
    /\ DOMAIN streams = {0, 1}
    /\ ~streams[0].active
    /\ streams[0].bonusClaimed
    /\ streams[0].lastCheckpoint > 0
    /\ streams[1] = NewStream(employee, 3, 5000, 0)
    /\ ledger[0].resumedAt # NoTime

\* the errors with which a withdrawal stops before it moves anything
PaysNothing ==
    {"SignatureExpired", "InvalidNonce", "InvalidSignature",
     "NothingToWithdraw"}

\* C30: at every external fund movement of a withdrawal (vault pull, tax
\* transfer, employee transfer, relayer fee) lastCheckpoint is already now,
\* a bonus being paid is already marked claimed and, on the signed path, the
\* nonce is already incremented; so a withdraw or withdrawSigned invoked from
\* inside any of them pays nothing again and cannot reuse the nonce.
C30_CheckpointBeforeTransfers ==
    ~Idle =>
        LET id == last.streamId
            emp == streams[last.streamId].employee
        IN
        /\ streams[id].lastCheckpoint = now
        /\ last.bonus > 0 => streams[id].bonusClaimed
        /\ accruedSalary(streams, id, now) = 0
        /\ ~bonusClaimable(streams[id], now)
        /\ \A used \in accepted : nonces[used[1]] > used[2]
        /\ last.op = "withdrawSigned" =>
              <<emp, nonces[emp] - 1>> \in accepted
        /\ \A c \in WithdrawCallers :
              /\ withdraw(c, id).err = "NothingToWithdraw"
              /\ NothingMoved(withdraw(c, id))
        /\ \A call \in SignedCalls :
              call.streamId = id =>
                /\ signedResult(call).err \in PaysNothing
                /\ NoEffect(signedResult(call))
                /\ (<<emp, call.nonce>> \in accepted
                        /\ ~expired(now, call.deadline))
                      => signedResult(call).err = "InvalidNonce"

\* a signed withdrawal of salary and bonus has written its nonce and its
\* checkpoint and is about to pull the payout, still in the vault, from it
C30_Witness ==
    /\ last.at = "vaultPull"
    /\ last.op = "withdrawSigned"
    /\ last.accrued > 0
    /\ last.bonus > 0
    /\ last.fee > 0
    /\ balances[vault] >= last.net + last.tax

\* between transactions the StreamManager holds the sponsorship pool and
\* nothing else: the steps add up to the whole withdrawal
C30_StepsAddUp ==
    Idle => balances[manager] = sponsorshipPool

\* C31: withdraw(streamId) can be invoked by any caller; for every caller a
\* successful withdrawal pays net to the stream's employee and tax to the tax
\* vault, a caller other than the employee receives nothing, and the funds
\* pulled from the vault are exactly net + tax.
C31_AnyoneMayWithdraw ==
    \A id \in DOMAIN streams, c \in Accounts :
        LET w == withdraw(c, id)
            emp == streams[id].employee
        IN
        /\ w = withdraw(emp, id)
        /\ w.err = "ok" =>
              /\ Gain(w, emp) = w.net
              /\ Gain(w, taxVault) = w.tax
              /\ Gain(w, vault) = 0 - (w.net + w.tax)
              /\ Gain(w, manager) = 0
              /\ c # emp => Gain(w, c) = 0
              /\ \A h \in Holders \ {emp, taxVault, vault} : Gain(w, h) = 0

\* a stranger's withdraw on the employee's stream would go through, with
\* salary, tax and a released bonus to pay
C31_Witness ==
    \E id \in DOMAIN streams :
        LET w == withdraw(relayer, id) IN
        /\ streams[id].employee = employee
        /\ w.err = "ok"
        /\ w.tax > 0
        /\ w.bonus > 0
        /\ Gain(w, employee) = w.net
        /\ Gain(w, relayer) = 0

\* C32: for a stream that is paused or cancelled, and stays as it is, the
\* reported accruedSalary(id) and netWithdrawable(id) do not grow as time
\* passes.
C32_SuspendedAccruesNothing ==
    [][\A id \in DOMAIN streams :
         ((streams[id].paused \/ ~streams[id].active)
                /\ streams'[id] = streams[id])
            => /\ accruedSalary(streams', id, now')
                    <= accruedSalary(streams, id, now)
               /\ netWithdrawable(streams', id, now')
                    <= netWithdrawable(streams, id, now)]_vars

\* what the views do report for a paused or cancelled stream: the rate times
\* the time since the checkpoint, which no withdrawal will ever pay
C32_ViewsIgnoreSuspension ==
    \A id \in DOMAIN streams :
        (streams[id].paused \/ ~streams[id].active) =>
            /\ accruedSalary(streams, id, now) =
                    streams[id].ratePerSecond
                        * (now - streams[id].lastCheckpoint)
            /\ \A c \in WithdrawCallers : withdraw(c, id).err # "ok"

\* C33: an accrual after elapsed seconds credits
\* floor(totalPrincipal * yieldRateBps * elapsed / (10000 * secondsPerYear)),
\* computed on the principal alone and 0 when principal, rate or elapsed is
\* 0; every accrual sets lastUpdate to now; deposit and withdraw accrue on
\* the principal in force before they change it.
C33_LinearYield ==
    LET P == yieldVault.totalPrincipal
        elapsed == now - yieldVault.lastUpdate
        credit == (P * yieldVault.yieldRateBps * elapsed)
                    \div (10000 * SECONDS_PER_YEAR)
    IN
    /\ Accrued.accumulatedYield = yieldVault.accumulatedYield + credit
    /\ Accrued.lastUpdate = now
    /\ (P = 0 \/ yieldVault.yieldRateBps = 0 \/ elapsed = 0)
            => Accrued.accumulatedYield = yieldVault.accumulatedYield
    /\ \A a \in VaultWithdrawChoices \cup AmountChoices :
        /\ LET d == vaultDeposit(yieldVault, balances, vaultOwner,
                                 vaultOwner, a, now)
           IN d.err = "ok" =>
                /\ d.yieldVault.accumulatedYield =
                        yieldVault.accumulatedYield + credit
                /\ d.yieldVault.totalPrincipal = P + a
                /\ d.yieldVault.lastUpdate = now
        /\ LET w == vaultWithdraw(yieldVault, balances, vaultOwner,
                                  vaultOwner, a, owner, now)
           IN w.err = "ok" =>
                /\ w.yieldVault.accumulatedYield + w.yieldVault.totalPrincipal
                        = P + yieldVault.accumulatedYield + credit - a
                /\ w.yieldVault.accumulatedYield =
                        IF a <= yieldVault.accumulatedYield + credit
                        THEN yieldVault.accumulatedYield + credit - a
                        ELSE 0
                /\ w.yieldVault.lastUpdate = now

\* at 10000 bps on a principal of 40, with yield already credited, a further
\* time unit has passed: the pending yield is again 20, not 20 plus yield on
\* the credited yield
C33_Witness ==
    /\ yieldVault.totalPrincipal = 40
    /\ yieldVault.yieldRateBps = MAX_YIELD_BPS
    /\ yieldVault.accumulatedYield >= 20
    /\ now - yieldVault.lastUpdate = 1
    /\ pendingYield(yieldVault, now) = 20

\* the employee's own signed calls for a stream other than the one whose
\* signed withdrawal went through last, carrying a nonce already accepted
SameNonceOnOtherStream ==
    {call \in SignedCalls :
        /\ last.op = "withdrawSigned"
        /\ call.streamId \in DOMAIN streams
        /\ call.streamId # last.streamId
        /\ employeeOf(call.streamId) = employeeOf(last.streamId)
        /\ Genuine(call)
        /\ <<employeeOf(call.streamId), call.nonce>> \in accepted}

\* C34 as stated: when an employee with streams A and B signed withdrawals
\* for both with the same nonce N and one has been accepted, the other fails
\* with InvalidNonce.
C34_OtherFailsInvalidNonce ==
    \A call \in SameNonceOnOtherStream :
        signedResult(call).err = "InvalidNonce"

\* C34 as amended: the nonce is per employee.  A signed withdrawal is accepted
\* only with the employee's current nonce, which no earlier accepted
\* withdrawal on any of the employee's streams carried, and it advances that
\* nonce by 1 for all of them; so of two withdrawals signed with the same N
\* for streams A and B at most one is ever accepted, and the other then
\* fails without effect, with InvalidNonce while its deadline has not passed
\* and with SignatureExpired once it has.
C34_PerEmployeeNonce ==
    [][/\ SignedStep =>
            LET e == employeeOf(last'.streamId) IN
            /\ <<e, nonces[e]>> \notin accepted
            /\ accepted' = accepted \cup {<<e, nonces[e]>>}
            /\ nonces'[e] = nonces[e] + 1
       /\ \A call \in SignedCalls :
            signedResult(call).err = "ok"
                => call.nonce = nonces[employeeOf(call.streamId)]
       /\ \A call \in SameNonceOnOtherStream :
            /\ signedResult(call).err =
                    IF now > call.deadline THEN "SignatureExpired"
                    ELSE "InvalidNonce"
            /\ NoEffect(signedResult(call))]_vars

\* the employee has two streams; nonce 0 was accepted on one, the other has
\* salary to pay, and the employee's unexpired signature for it is refused
\* with nonce 0 and accepted with nonce 1
C34_Witness ==
    \E call \in SameNonceOnOtherStream :
        /\ now <= call.deadline
        /\ call.relayerFee = 0
        /\ withdraw(call.caller, call.streamId).err = "ok"
        /\ signedResult(call).err = "InvalidNonce"
        /\ nonces[employeeOf(call.streamId)] = call.nonce + 1
        /\ signedResult([call EXCEPT
                !.nonce = call.nonce + 1,
                !.signature = Signature(employeeOf(call.streamId),
                    Payload(call.streamId, call.nonce + 1, call.deadline))]).err
              = "ok"

\* the stream has never been paused or cancelled
NeverSuspended(id) ==
    /\ streams[id].active
    /\ ~streams[id].paused
    /\ ledger[id].resumedAt = NoTime

\* C35: the salary paid for a stream (gross minus bonus, over all its
\* withdrawals) never exceeds ratePerSecond times the time the stream has
\* spent active and unpaused so far; for a stream never paused or cancelled
\* it is exactly ratePerSecond * (time of last withdrawal - creation time).
C35_NoOverPayment ==
    \A id \in DOMAIN streams :
        /\ ledger[id].paid <=
                streams[id].ratePerSecond
                    * (ledger[id].earning + ledger[id].unpaid)
        /\ ledger[id].earning + ledger[id].unpaid <= now - ledger[id].createdAt
        /\ NeverSuspended(id) =>
                /\ ledger[id].paid =
                        streams[id].ratePerSecond
                            * (ledger[id].paidAt - ledger[id].createdAt)
                /\ ledger[id].earning + ledger[id].unpaid =
                        now - ledger[id].createdAt

\* a stream was paid twice, a time unit apart, without ever being suspended;
\* the two payments add up to the rate times the two units
C35_Witness ==
    \E id \in DOMAIN streams :
        /\ NeverSuspended(id)
        /\ ledger[id].paid = 2 * streams[id].ratePerSecond
        /\ ledger[id].paidAt = 2
        /\ ledger[id].createdAt = 0
        /\ ledger[id].earning = 2
        /\ last.time = 2 /\ last.accrued = streams[id].ratePerSecond

\* a stream that was paused for a time unit and paid afterwards received
\* less than the rate times its earning time
C35_UnderPaid ==
    \E id \in DOMAIN streams :
        /\ ledger[id].resumedAt # NoTime
        /\ ledger[id].unpaid = 0
        /\ ledger[id].earning > 0
        /\ ledger[id].paid <
                streams[id].ratePerSecond * ledger[id].earning

\* C36: after every completed operation the StreamManager's own token holding
\* equals sponsorshipPool, which is never negative; treasury deposits and
\* withdrawal payouts pass through without residue, so salary, bonus and tax
\* come from the vault alone and a relayer fee from the pool alone.
C36_SponsorshipIsolation ==
    /\ balances[manager] = sponsorshipPool
    /\ sponsorshipPool >= 0
    /\ \A a \in TreasuryProbes :
        LET d == depositTreasury(owner, a) IN
        d.err = "ok" => /\ Gain(d, manager) = 0
                        /\ d.sponsorshipPool = sponsorshipPool
    /\ \A a \in SponsorChoices :
        LET d == depositSponsorshipPool(owner, a) IN
        d.err = "ok" => /\ Gain(d, manager) = a
                        /\ d.sponsorshipPool = sponsorshipPool + a
                        /\ Gain(d, vault) = 0
    /\ \A id \in DOMAIN streams, c \in WithdrawCallers :
        LET w == withdraw(c, id) IN
        w.err = "ok" => /\ Gain(w, manager) = 0
                        /\ Gain(w, vault) = 0 - (w.net + w.tax)
    /\ \A call \in SignedCalls :
        LET w == signedResult(call) IN
        w.err = "ok" =>
            /\ Gain(w, manager) = 0 - call.relayerFee
            /\ w.sponsorshipPool = sponsorshipPool - call.relayerFee
            /\ w.sponsorshipPool >= 0
            /\ w.balances[manager] = w.sponsorshipPool
            /\ Gain(w, vault) = 0 - (w.net + w.tax)

\* a withdrawal has paid salary and tax while the pool held its token, which
\* is still all that the StreamManager holds
C36_Witness ==
    /\ last.op \in {"withdraw", "withdrawSigned"}
    /\ last.fee = 0
    /\ last.net > 0 /\ last.tax > 0
    /\ sponsorshipPool = 1
    /\ balances[manager] = 1
    /\ \E call \in SignedCalls :
        /\ call.relayerFee = 1
        /\ signedResult(call).err = "ok"

\* C37: the vault's token holding is at least totalPrincipal +
\* accumulatedYield in every reachable state, so that a vault withdrawal, and
\* with it a stream withdrawal, that passes the InsufficientBalance check
\* never fails in the transfer for lack of tokens.
C37_VaultSolvent ==
    /\ balances[vault] >= yieldVault.totalPrincipal + yieldVault.accumulatedYield
    /\ \A a \in 1..Available :
          vaultWithdraw(yieldVault, balances, vaultOwner, vaultOwner, a,
                        manager, now).err = "ok"
    /\ \A id \in DOMAIN streams, c \in WithdrawCallers :
          withdraw(c, id).err # "ERC20InsufficientBalance"

\* what the vault's books and its holding do satisfy: the holding never
\* exceeds the book value, since credited yield adds to the books alone
C37_HoldingBelowBooks ==
    balances[vault] <= yieldVault.totalPrincipal + yieldVault.accumulatedYield

\* the stream table ss has stream id checkpointed at t
CheckpointedAt(ss, id, t) == ss[id].lastCheckpoint = t

\* C38: lastCheckpoint never decreases and never exceeds the current time;
\* creation and every successful withdrawal, pause, resume and cancel set it
\* to now; scheduleBonus and every failed call leave it unchanged; so
\* now - lastCheckpoint is never negative.
C38_CheckpointMonotone ==
    [][/\ \A id \in DOMAIN streams :
            /\ streams[id].lastCheckpoint <= now
            /\ accruedSalary(streams, id, now) >= 0
            /\ streams'[id].lastCheckpoint >= streams[id].lastCheckpoint
            /\ streams'[id].lastCheckpoint <= now'
            /\ \A ss \in {pauseStream(owner, id).streams,
                            resumeStream(owner, id).streams,
                            cancelStream(owner, id).streams}
                        \cup {w.result.streams : w \in WithdrawalsOf(id)} :
                    ss # streams => CheckpointedAt(ss, id, now)
            /\ \A a \in BonusProbes, t \in ReleaseProbes :
                    CheckpointedAt(scheduleBonus(owner, id, a, t).streams, id,
                                   streams[id].lastCheckpoint)
            /\ \A w \in WithdrawalsOf(id) :
                    w.result.err # "ok" => w.result.streams = streams
       /\ \A id \in DOMAIN streams' \ DOMAIN streams :
            CheckpointedAt(streams', id, now)
       /\ \A id \in DOMAIN streams :
            streams'[id].lastCheckpoint # streams[id].lastCheckpoint
                => CheckpointedAt(streams', id, now)]_vars

\* a stream paused at time 1, which moved its checkpoint from 0 to 1, that
\* carries a scheduled bonus and whose checkpoint stays behind the clock
C38_Witness ==
    \E id \in DOMAIN streams :
        /\ now = 2
        /\ streams[id].paused
        /\ streams[id].lastCheckpoint = 1
        /\ streams[id].bonusAmount > 0
        /\ ~streams[id].bonusClaimed

\* the yield the running interval credits when an accrual closes it now
SplitYield == last.credited + pendingYield(yieldVault, now)

\* the yield one accrual over the whole running interval would credit
SingleYield == pendingYield([yieldVault EXCEPT !.lastUpdate = last.since], now)

\* C39: for constant principal and rate, the yield credited over an interval
\* split by k intermediate accrual events is never more than the yield of a
\* single accrual over the whole interval and is less than it by fewer than
\* k + 1 units; an accrual event whose yield floors to 0 credits nothing and
\* still advances lastUpdate.
C39_SplittingLosesOnlyRounding ==
    [][/\ SplitYield <= SingleYield
       /\ SingleYield - SplitYield < last.events + 1
       /\ yieldVault' # yieldVault =>
            /\ yieldVault'.lastUpdate = now
            /\ \A yv \in {simulateYield(yieldVault, now)} :
                 /\ yv.lastUpdate = now
                 /\ pendingYield(yieldVault, now) = 0
                      => yv.accumulatedYield = yieldVault.accumulatedYield
                 /\ setYieldRate(owner, yieldVault.yieldRateBps).yieldVault = yv]_vars

\* three accrual events one second apart that each floored to 0, on a vault
\* that a single accrual over the four seconds would have credited 3
C39_Witness ==
    /\ now = MaxAccrualTime
    /\ last.events = 3
    /\ last.since = 0
    /\ last.credited = 0
    /\ yieldVault.lastUpdate = 3
    /\ yieldVault.accumulatedYield = 0
    /\ SplitYield = 0
    /\ SingleYield = 3

====
